---------------------------- MODULE Spec2Model ----------------------------
(***************************************************************************)
(* Model of the rule-based intent parser of the Blender AI agent           *)
(* (source/blender/athenamist_integration/core/intent_parser.py).          *)
(*                                                                         *)
(* A Python str is a sequence of one-character strings; a character        *)
(* outside ASCII is written as its code point, "U+2102".  A float score is *)
(* kept exactly, as an integer number of 1/Scale units: the code only adds *)
(* 1.0 and 0.5 and divides by a list length of 5 or 6, so every score is a *)
(* multiple of 1/60 and float rounding never merges two different scores.  *)
(***************************************************************************)
EXTENDS Integers, Sequences, FiniteSets, TLC

(***************************************************************************)
(* Characters and the str methods the parser uses.                         *)
(***************************************************************************)
LowerMap ==
    ("A" :> "a") @@ ("B" :> "b") @@ ("C" :> "c") @@ ("D" :> "d") @@
    ("E" :> "e") @@ ("F" :> "f") @@ ("G" :> "g") @@ ("H" :> "h") @@
    ("I" :> "i") @@ ("J" :> "j") @@ ("K" :> "k") @@ ("L" :> "l") @@
    ("M" :> "m") @@ ("N" :> "n") @@ ("O" :> "o") @@ ("P" :> "p") @@
    ("Q" :> "q") @@ ("R" :> "r") @@ ("S" :> "s") @@ ("T" :> "t") @@
    ("U" :> "u") @@ ("V" :> "v") @@ ("W" :> "w") @@ ("X" :> "x") @@
    ("Y" :> "y") @@ ("Z" :> "z")

UpperChars == DOMAIN LowerMap

LowerChars == {LowerMap[c] : c \in UpperChars}

\* DOUBLE-STRUCK CAPITAL C: str.isupper() holds of it and it has no lowercase
\* form, str.lower() leaves it as it is
DoubleStruckC == "U+2102"

\* LATIN SMALL LETTER LONG S: str.lower() leaves it, str.upper() gives "S"
LongS == "U+017F"

\* str.isupper() of one character
IsUpper(c) == c \in UpperChars \cup {DoubleStruckC}

DigitValue ==
    ("0" :> 0) @@ ("1" :> 1) @@ ("2" :> 2) @@ ("3" :> 3) @@ ("4" :> 4) @@
    ("5" :> 5) @@ ("6" :> 6) @@ ("7" :> 7) @@ ("8" :> 8) @@ ("9" :> 9)

Digits == DOMAIN DigitValue

\* \s of the re module, and the characters str.split() and str.strip() drop
SpaceChars == {" ", "\t", "\n", "\r", "\f"}

\* \w of the re module
WordChars == LowerChars \cup UpperChars \cup Digits \cup {"_", DoubleStruckC, LongS}

IsSpace(c) == c \in SpaceChars

IsWordChar(c) == c \in WordChars

\* a variant of Lower that leaves every character as it is
LowerNone(s) == s

\* str.lower()
Lower(s) == [i \in 1..Len(s) |-> IF s[i] \in UpperChars THEN LowerMap[s[i]] ELSE s[i]]

\* the first index >= i of s that holds no whitespace (Len(s)+1 when none)
RECURSIVE SkipSpace(_, _)
SkipSpace(s, i) ==
    IF i > Len(s) \/ ~IsSpace(s[i]) THEN i ELSE SkipSpace(s, i + 1)

\* the first index >= i of s that holds whitespace (Len(s)+1 when none)
RECURSIVE SkipNonSpace(_, _)
SkipNonSpace(s, i) ==
    IF i > Len(s) \/ IsSpace(s[i]) THEN i ELSE SkipNonSpace(s, i + 1)

\* the first index >= i of s that holds no \w character (Len(s)+1 when none)
RECURSIVE SkipWord(_, _)
SkipWord(s, i) ==
    IF i > Len(s) \/ ~IsWordChar(s[i]) THEN i ELSE SkipWord(s, i + 1)

\* re.sub(r'\s+', ' ', s) from index i on
RECURSIVE CollapseFrom(_, _)
CollapseFrom(s, i) ==
    IF i > Len(s) THEN <<>>
    ELSE IF IsSpace(s[i]) THEN <<" ">> \o CollapseFrom(s, SkipSpace(s, i))
    ELSE <<s[i]>> \o CollapseFrom(s, i + 1)

\* the last index <= i of s that holds no whitespace (0 when none)
RECURSIVE LastNonSpace(_, _)
LastNonSpace(s, i) ==
    IF i = 0 \/ ~IsSpace(s[i]) THEN i ELSE LastNonSpace(s, i - 1)

\* str.strip()
Strip(s) == SubSeq(s, SkipSpace(s, 1), LastNonSpace(s, Len(s)))

\* str.split(): the whitespace-delimited tokens of s from index i on
RECURSIVE SplitFrom(_, _)
SplitFrom(s, i) ==
    LET a == SkipSpace(s, i)
        b == SkipNonSpace(s, a)
    IN  IF a > Len(s) THEN <<>>
        ELSE <<SubSeq(s, a, b - 1)>> \o SplitFrom(s, b)

Split(s) == SplitFrom(s, 1)

\* p occurs in s starting at index i
MatchAt(p, s, i) ==
    /\ i >= 1
    /\ i + Len(p) - 1 <= Len(s)
    /\ \A n \in 1..Len(p) : s[i + n - 1] = p[n]

\* the Python test "p in s" on two str
Contains(p, s) == \E i \in 1..(Len(s) - Len(p) + 1) : MatchAt(p, s, i)

\* \b at the gap before index i of s
WordBoundary(s, i) ==
    LET before == i > 1 /\ i - 1 <= Len(s) /\ IsWordChar(s[i - 1])
        after  == i >= 1 /\ i <= Len(s) /\ IsWordChar(s[i])
    IN  before # after

\* a variant of SubWordFrom that drops both \b: s.replace(abbrev, full)
RECURSIVE SubWordFromAnywhere(_, _, _, _)
SubWordFromAnywhere(s, abbrev, full, i) ==
    IF i > Len(s) THEN <<>>
    ELSE IF MatchAt(abbrev, s, i)
         THEN full \o SubWordFromAnywhere(s, abbrev, full, i + Len(abbrev))
         ELSE <<s[i]>> \o SubWordFromAnywhere(s, abbrev, full, i + 1)

\* re.sub(r'\b' + abbrev + r'\b', full, s) from index i on
RECURSIVE SubWordFrom(_, _, _, _)
SubWordFrom(s, abbrev, full, i) ==
    IF i > Len(s) THEN <<>>
    ELSE IF /\ MatchAt(abbrev, s, i)
            /\ WordBoundary(s, i)
            /\ WordBoundary(s, i + Len(abbrev))
         THEN full \o SubWordFrom(s, abbrev, full, i + Len(abbrev))
         ELSE <<s[i]>> \o SubWordFrom(s, abbrev, full, i + 1)

(***************************************************************************)
(* IntentType, in declaration order.                                       *)
(***************************************************************************)
IntentType ==
    << "CREATE_OBJECT", "MODIFY_OBJECT", "CREATE_MATERIAL", "ANIMATE_OBJECT",
       "OPTIMIZE_SCENE", "RENDER_SCENE", "APPLY_MODIFIER", "SETUP_LIGHTING",
       "CREATE_TEXTURE", "HELP_REQUEST" >>

IntentTypes == {IntentType[i] : i \in 1..Len(IntentType)}

\* the position of an intent type in the enumeration
EnumIndex(t) == CHOOSE i \in 1..Len(IntentType) : IntentType[i] = t

(***************************************************************************)
(* IntentParser._normalize_input                                           *)
(***************************************************************************)
\* a variant of abbreviations whose full form for 'light' is another word
abbreviations_lossy ==
    << << <<"o","b","j">>,    <<"o","b","j","e","c","t">> >>,
       << <<"m","a","t">>,    <<"m","a","t","e","r","i","a","l">> >>,
       << <<"t","e","x">>,    <<"t","e","x","t","u","r","e">> >>,
       << <<"a","n","i","m">>,   <<"a","n","i","m","a","t","e">> >>,
       << <<"m","o","d">>,    <<"m","o","d","i","f","i","e","r">> >>,
       << <<"l","i","g","h","t">>,  <<"l","a","m","p">> >>,
       << <<"r","e","n","d","e","r">>, <<"r","e","n","d","e","r","i","n","g">> >> >>

\* the abbreviations dict, in insertion order
abbreviations ==
    << << <<"o","b","j">>,             <<"o","b","j","e","c","t">> >>,
       << <<"m","a","t">>,             <<"m","a","t","e","r","i","a","l">> >>,
       << <<"t","e","x">>,             <<"t","e","x","t","u","r","e">> >>,
       << <<"a","n","i","m">>,         <<"a","n","i","m","a","t","e">> >>,
       << <<"m","o","d">>,             <<"m","o","d","i","f","i","e","r">> >>,
       << <<"l","i","g","h","t">>,     <<"l","i","g","h","t","i","n","g">> >>,
       << <<"r","e","n","d","e","r">>, <<"r","e","n","d","e","r","i","n","g">> >> >>

\* the for loop over abbreviations.items(), from entry k on
RECURSIVE ExpandFrom(_, _)
ExpandFrom(s, k) ==
    IF k > Len(abbreviations) THEN s
    ELSE ExpandFrom(SubWordFrom(s, abbreviations[k][1], abbreviations[k][2], 1), k + 1)

\* a variant of _normalize_input without .strip()
_normalize_input_unstripped(user_input) ==
    ExpandFrom(CollapseFrom(Lower(user_input), 1), 1)

_normalize_input(user_input) ==
    ExpandFrom(Strip(CollapseFrom(Lower(user_input), 1)), 1)

(***************************************************************************)
(* IntentClassifier                                                        *)
(***************************************************************************)
\* the dict _load_keywords returns, as its (key, value) items in insertion order
_load_keywords ==
    << << "CREATE_OBJECT", <<
           <<"c","r","e","a","t","e">>,
           <<"m","a","k","e">>,
           <<"a","d","d">>,
           <<"g","e","n","e","r","a","t","e">>,
           <<"b","u","i","l","d">>,
           <<"n","e","w">> >> >>,
       << "MODIFY_OBJECT", <<
           <<"m","o","d","i","f","y">>,
           <<"c","h","a","n","g","e">>,
           <<"e","d","i","t">>,
           <<"u","p","d","a","t","e">>,
           <<"a","l","t","e","r">>,
           <<"t","r","a","n","s","f","o","r","m">> >> >>,
       << "CREATE_MATERIAL", <<
           <<"m","a","t","e","r","i","a","l">>,
           <<"t","e","x","t","u","r","e">>,
           <<"s","h","a","d","e","r">>,
           <<"l","o","o","k">>,
           <<"a","p","p","e","a","r","a","n","c","e">> >> >>,
       << "ANIMATE_OBJECT", <<
           <<"a","n","i","m","a","t","e">>,
           <<"a","n","i","m","a","t","i","o","n">>,
           <<"m","o","v","e">>,
           <<"m","o","t","i","o","n">>,
           <<"k","e","y","f","r","a","m","e">> >> >>,
       << "OPTIMIZE_SCENE", <<
           <<"o","p","t","i","m","i","z","e">>,
           <<"i","m","p","r","o","v","e">>,
           <<"b","e","t","t","e","r">>,
           <<"e","n","h","a","n","c","e">>,
           <<"p","e","r","f","o","r","m","a","n","c","e">> >> >>,
       << "RENDER_SCENE", <<
           <<"r","e","n","d","e","r">>,
           <<"i","m","a","g","e">>,
           <<"p","i","c","t","u","r","e">>,
           <<"o","u","t","p","u","t">>,
           <<"f","i","n","a","l">> >> >>,
       << "APPLY_MODIFIER", <<
           <<"m","o","d","i","f","i","e","r">>,
           <<"s","u","b","d","i","v","i","s","i","o","n">>,
           <<"b","e","v","e","l">>,
           <<"a","r","r","a","y">>,
           <<"m","i","r","r","o","r">> >> >>,
       << "SETUP_LIGHTING", <<
           <<"l","i","g","h","t">>,
           <<"l","i","g","h","t","i","n","g">>,
           <<"i","l","l","u","m","i","n","a","t","e">>,
           <<"b","r","i","g","h","t">>,
           <<"s","h","a","d","o","w">> >> >>,
       << "CREATE_TEXTURE", <<
           <<"t","e","x","t","u","r","e">>,
           <<"p","a","t","t","e","r","n">>,
           <<"s","u","r","f","a","c","e">>,
           <<"d","e","t","a","i","l">>,
           <<"b","u","m","p">> >> >>,
       << "HELP_REQUEST", <<
           <<"h","e","l","p">>,
           <<"h","o","w">>,
           <<"w","h","a","t">>,
           <<"w","h","y">>,
           <<"t","u","t","o","r","i","a","l">>,
           <<"g","u","i","d","e">> >> >> >>

\* one float unit: 1.0 is Scale, 0.5 is Scale \div 2; a common multiple of
\* twice every keyword list length (5 and 6), so that score / len is exact
Scale == 2 * 5 * 6

Min(a, b) == IF a <= b THEN a ELSE b

\* a variant of WordLoop that tests "keyword in word" alone
RECURSIVE WordLoopOneWay(_, _, _)
WordLoopOneWay(keyword, input_words, j) ==
    IF j > Len(input_words) THEN 0
    ELSE (IF Contains(keyword, input_words[j]) THEN 1 ELSE 0)
         + WordLoopOneWay(keyword, input_words, j + 1)

\* the inner loop "for word in input_words" for one keyword, from word j on:
\* the number of 0.5 steps it adds
RECURSIVE WordLoop(_, _, _)
WordLoop(keyword, input_words, j) ==
    IF j > Len(input_words) THEN 0
    ELSE (IF Contains(keyword, input_words[j]) \/ Contains(input_words[j], keyword)
          THEN 1 ELSE 0)
         + WordLoop(keyword, input_words, j + 1)

\* the outer loop "for keyword in keywords", from keyword k on: the score it
\* accumulates, counted in halves
RECURSIVE KeywordLoop(_, _, _, _)
KeywordLoop(user_input, input_words, kws, k) ==
    IF k > Len(kws) THEN 0
    ELSE (IF Contains(kws[k], user_input) THEN 2 ELSE 0)
         + WordLoop(kws[k], input_words, 1)
         + KeywordLoop(user_input, input_words, kws, k + 1)

\* a variant of _calculate_score without the clamp: score / len(keywords)
_calculate_score_unclamped(user_input, kws) ==
    LET halves == KeywordLoop(user_input, Split(user_input), kws, 1)
    IN  (halves * (Scale \div 2)) \div Len(kws)

\* a variant of _calculate_score without the division: min(score, 1.0)
_calculate_score_undivided(user_input, kws) ==
    LET halves == KeywordLoop(user_input, Split(user_input), kws, 1)
    IN  Min(halves * (Scale \div 2), Scale)

\* min(score / len(keywords), 1.0), in 1/Scale units
_calculate_score(user_input, kws) ==
    LET halves == KeywordLoop(user_input, Split(user_input), kws, 1)
    IN  Min((halves * (Scale \div 2)) \div Len(kws), Scale)

\* the scores dict classify builds, as its items in insertion order: the loop
\* "for intent_type, keywords in self.keywords.items()", from item i on
RECURSIVE ScoresFrom(_, _, _)
ScoresFrom(user_input, table, i) ==
    IF i > Len(table) THEN <<>>
    ELSE << << table[i][1], _calculate_score(user_input, table[i][2]) >> >>
         \o ScoresFrom(user_input, table, i + 1)

\* a variant of MaxLoop that keeps the last of the greatest items (>= for >)
RECURSIVE MaxLoopLast(_, _, _)
MaxLoopLast(scores, i, best) ==
    IF i > Len(scores) THEN best
    ELSE MaxLoopLast(scores, i + 1, IF scores[i][2] >= scores[best][2] THEN i ELSE best)

\* max(scores, key=scores.get): the index of the first item, in iteration
\* order, whose value no other item exceeds; best is the index held so far
RECURSIVE MaxLoop(_, _, _)
MaxLoop(scores, i, best) ==
    IF i > Len(scores) THEN best
    ELSE MaxLoop(scores, i + 1, IF scores[i][2] > scores[best][2] THEN i ELSE best)

\* classify: (best_intent, confidence)
classify(user_input, table) ==
    LET scores == ScoresFrom(user_input, table, 1)
        best   == MaxLoop(scores, 2, 1)
    IN  << scores[best][1], scores[best][2] >>

(***************************************************************************)
(* float(x): the literals Python accepts, and their values.  A value is    *)
(* <<m, e>> for m * 10^e with m not a multiple of 10 (<<0, 0>> for zero),  *)
(* <<"inf", sign>> or <<"nan", 0>>.                                        *)
(***************************************************************************)
\* the index after one digit of a digitpart and the ["_"] digit groups after it
RECURSIVE DigitPartRest(_, _)
DigitPartRest(s, i) ==
    IF i <= Len(s) /\ s[i] \in Digits THEN DigitPartRest(s, i + 1)
    ELSE IF i + 1 <= Len(s) /\ s[i] = "_" /\ s[i + 1] \in Digits
         THEN DigitPartRest(s, i + 2)
    ELSE i

\* the index after the digitpart that starts at i (i itself when there is none)
DigitPart(s, i) ==
    IF i <= Len(s) /\ s[i] \in Digits THEN DigitPartRest(s, i + 1) ELSE i

\* the number the digits of s between a and b - 1 spell, "_" skipped, after acc
RECURSIVE DigitsValue(_, _, _, _)
DigitsValue(s, a, b, acc) ==
    IF a >= b THEN acc
    ELSE IF s[a] \in Digits THEN DigitsValue(s, a + 1, b, 10 * acc + DigitValue[s[a]])
    ELSE DigitsValue(s, a + 1, b, acc)

\* how many digits s holds between a and b - 1
DigitCount(s, a, b) == Cardinality({i \in a..(b - 1) : s[i] \in Digits})

\* m * 10^e in normal form
RECURSIVE Decimal(_, _)
Decimal(m, e) ==
    IF m = 0 THEN <<0, 0>>
    ELSE IF m % 10 = 0 THEN Decimal(m \div 10, e + 1)
    ELSE <<m, e>>

IsSign(s, i) == i <= Len(s) /\ s[i] \in {"+", "-"}

\* the value of a literal: sign, digits s[b..fp-1] with frac of them after the
\* point, and the exponent digits s[eb..ee-1]
FloatValue(s, neg, b, fp, frac, expNeg, eb, ee) ==
    Decimal((IF neg THEN -1 ELSE 1) * DigitsValue(s, b, fp, 0),
            (IF expNeg THEN -1 ELSE 1) * DigitsValue(s, eb, ee, 0) - frac)

\* the exponent of a literal whose number part s[b..fp-1] is well-formed; the
\* exponent's digits start at eb when there is an exponent
FloatExponent(s, neg, b, fp, frac, isExp, eb) ==
    IF ~isExp
    THEN IF fp = Len(s) + 1
         THEN [ok |-> TRUE, value |-> FloatValue(s, neg, b, fp, frac, FALSE, fp, fp)]
         ELSE [ok |-> FALSE, value |-> <<0, 0>>]
    ELSE IF DigitPart(s, eb) > eb /\ DigitPart(s, eb) = Len(s) + 1
    THEN [ok |-> TRUE,
          value |-> FloatValue(s, neg, b, fp, frac, s[eb - 1] = "-", eb, Len(s) + 1)]
    ELSE [ok |-> FALSE, value |-> <<0, 0>>]

\* the literal whose integer part is s[b..ip-1] and whose number part ends
\* before fp
FloatFraction(s, neg, b, ip, fp) ==
    IF ip > b \/ fp > ip + 1
    THEN FloatExponent(s, neg, b, fp,
                       IF fp > ip THEN DigitCount(s, ip + 1, fp) ELSE 0,
                       fp <= Len(s) /\ s[fp] \in {"e", "E"},
                       IF IsSign(s, fp + 1) THEN fp + 2 ELSE fp + 1)
    ELSE [ok |-> FALSE, value |-> <<0, 0>>]

\* the literal whose integer part is s[b..ip-1]
FloatNumber(s, neg, b, ip) ==
    FloatFraction(s, neg, b, ip,
                  IF ip <= Len(s) /\ s[ip] = "." THEN DigitPart(s, ip + 1) ELSE ip)

\* the literal of s after its sign, which ends before b
FloatUnsigned(s, neg, b) ==
    IF Lower(SubSeq(s, b, Len(s))) \in {<<"i","n","f">>, <<"i","n","f","i","n","i","t","y">>}
    THEN [ok |-> TRUE, value |-> <<"inf", IF neg THEN -1 ELSE 1>>]
    ELSE IF Lower(SubSeq(s, b, Len(s))) = <<"n","a","n">>
    THEN [ok |-> TRUE, value |-> <<"nan", 0>>]
    ELSE FloatNumber(s, neg, b, DigitPart(s, b))

\* float(s) for a stripped str s: [ok |-> FALSE] is ValueError
FloatLiteral(s) ==
    FloatUnsigned(s, IsSign(s, 1) /\ s[1] = "-", IF IsSign(s, 1) THEN 2 ELSE 1)

\* float(s): surrounding whitespace is ignored
float(s) == FloatLiteral(Strip(s))

(***************************************************************************)
(* Python dict and list helpers.                                           *)
(***************************************************************************)
\* {}
EmptyDict == [k \in {} |-> k]

\* d[k] = v
Put(d, k, v) == [x \in (DOMAIN d) \cup {k} |-> IF x = k THEN v ELSE d[x]]

\* d.get(k, default)
Get(d, k, default) == IF k \in DOMAIN d THEN d[k] ELSE default

\* the least element of a non-empty set of indices
Least(S) == CHOOSE i \in S : \A j \in S : i <= j

\* the greatest element of a non-empty set of indices
Greatest(S) == CHOOSE i \in S : \A j \in S : i >= j

\* the first index >= i of s that holds character c (Len(s)+1 when none)
RECURSIVE Find(_, _, _)
Find(s, c, i) ==
    IF i > Len(s) \/ s[i] = c THEN i ELSE Find(s, c, i + 1)

\* the first index >= i of s that holds no digit (Len(s)+1 when none)
RECURSIVE SkipDigits(_, _)
SkipDigits(s, i) ==
    IF i > Len(s) \/ s[i] \notin Digits THEN i ELSE SkipDigits(s, i + 1)

\* a variant of SplitComma that splits at the first comma only: s.split(',', 1)
SplitCommaOnce(s, i) ==
    LET c == Find(s, ",", i)
    IN  IF c > Len(s) THEN <<SubSeq(s, i, Len(s))>>
        ELSE <<SubSeq(s, i, c - 1), SubSeq(s, c + 1, Len(s))>>

\* s.split(','), from index i on
RECURSIVE SplitComma(_, _)
SplitComma(s, i) ==
    LET c == Find(s, ",", i)
    IN  IF c > Len(s) THEN <<SubSeq(s, i, Len(s))>>
        ELSE <<SubSeq(s, i, c - 1)>> \o SplitComma(s, c + 1)

(***************************************************************************)
(* IntentParser._parse_properties                                          *)
(***************************************************************************)
\* word \s+ at index i of s: the index after the whitespace, 0 when no match
AfterWordSpace(word, s, i) ==
    IF MatchAt(word, s, i) /\ i + Len(word) <= Len(s) /\ IsSpace(s[i + Len(word)])
    THEN SkipSpace(s, i + Len(word))
    ELSE 0

\* re.search(r'size\s+(\d+)', s): the indices where the pattern matches
SizeMatches(s) ==
    {i \in 1..Len(s) :
        LET j == AfterWordSpace(<<"s","i","z","e">>, s, i)
        IN  j # 0 /\ j <= Len(s) /\ s[j] \in Digits}

\* group(1) of the size match that starts at i
SizeGroup(s, i) ==
    LET j == AfterWordSpace(<<"s","i","z","e">>, s, i)
    IN  SubSeq(s, j, SkipDigits(s, j) - 1)

\* re.search(r'at\s+\(([^)]+)\)', s): the indices where the pattern matches
PosMatches(s) ==
    {i \in 1..Len(s) :
        LET j == AfterWordSpace(<<"a","t">>, s, i)
        IN  /\ j # 0 /\ j <= Len(s) /\ s[j] = "("
            /\ Find(s, ")", j + 1) <= Len(s)
            /\ Find(s, ")", j + 1) > j + 1}

\* group(1) of the position match that starts at i
PosGroup(s, i) ==
    LET j == AfterWordSpace(<<"a","t">>, s, i)
    IN  SubSeq(s, j + 1, Find(s, ")", j + 1) - 1)

\* re.search(r'color\s+(\w+)', s): the indices where the pattern matches
ColorMatches(s) ==
    {i \in 1..Len(s) :
        LET j == AfterWordSpace(<<"c","o","l","o","r">>, s, i)
        IN  j # 0 /\ j <= Len(s) /\ IsWordChar(s[j])}

\* group(1) of the color match that starts at i
ColorGroup(s, i) ==
    LET j == AfterWordSpace(<<"c","o","l","o","r">>, s, i)
    IN  SubSeq(s, j, SkipWord(s, j) - 1)

\* a variant of PutIf that sets the key in any case, to '' when c is false
PutAlways(c, d, k, v) == Put(d, k, IF c THEN v ELSE <<>>)

\* d[k] = v under "if c:"
PutIf(c, d, k, v) == IF c THEN Put(d, k, v) ELSE d

\* the list coords of line 208, [] when the position pattern does not match
Coords(s) ==
    IF PosMatches(s) # {}
    THEN SplitComma(PosGroup(s, Least(PosMatches(s))), 1)
    ELSE <<>>

\* float(x.strip()) for every x of coords
Floats(coords) == [n \in 1..Len(coords) |-> float(Strip(coords[n]))]

\* the dict of _parse_properties when no float() of line 209 raises
Properties(s, floats) ==
    PutIf(ColorMatches(s) # {},
          PutIf(PosMatches(s) # {},
                PutIf(SizeMatches(s) # {},
                      EmptyDict,
                      "size", float(SizeGroup(s, Least(SizeMatches(s)))).value),
                "position", [n \in DOMAIN floats |-> floats[n].value]),
          "color", ColorGroup(s, Least(ColorMatches(s))))

\* the three "if" of _parse_properties, given the float() of every coordinate
ParsedProperties(s, floats) ==
    IF \E n \in DOMAIN floats : ~floats[n].ok
    THEN [raised |-> TRUE, value |-> EmptyDict]
    ELSE [raised |-> FALSE, value |-> Properties(s, floats)]

\* [raised |-> TRUE] is the ValueError of float(); value is the dict returned
_parse_properties(properties_text) ==
    ParsedProperties(properties_text, Floats(Coords(properties_text)))

(***************************************************************************)
(* IntentParser._extract_parameters                                        *)
(***************************************************************************)
\* re.search(r'create\s+(?:a\s+)?(\w+)(?:\s+with\s+(.+))?', s): the indices
\* where the pattern matches
CreateMatches(s) ==
    {i \in 1..Len(s) :
        LET j == AfterWordSpace(<<"c","r","e","a","t","e">>, s, i)
        IN  j # 0 /\ j <= Len(s) /\ IsWordChar(s[j])}

\* where group(1) of the create match at i starts: after "a\s+" when a word
\* follows it, else at the word after "create\s+"
CreateWordStart(s, i) ==
    LET j == AfterWordSpace(<<"c","r","e","a","t","e">>, s, i)
        k == AfterWordSpace(<<"a">>, s, j)
    IN  IF k # 0 /\ k <= Len(s) /\ IsWordChar(s[k]) THEN k ELSE j

CreateGroup1(s, i) ==
    LET w == CreateWordStart(s, i)
    IN  SubSeq(s, w, SkipWord(s, w) - 1)

\* where (.+) may start in the create match at i: \s+with\s+ follows the word;
\* the last \s+ gives back whitespace until a character other than a newline
\* is left for (.+)
CreateGroup2Starts(s, i) ==
    LET e == SkipWord(s, CreateWordStart(s, i))
        w == IF e <= Len(s) /\ IsSpace(s[e]) THEN SkipSpace(s, e) ELSE 0
        x == IF w # 0 THEN AfterWordSpace(<<"w","i","t","h">>, s, w) ELSE 0
    IN  IF x = 0 THEN {}
        ELSE {p \in (w + Len(<<"w","i","t","h">>) + 1)..x : p <= Len(s) /\ s[p] # "\n"}

\* group(2) of the create match at i, for a non-empty CreateGroup2Starts
CreateGroup2(s, i) ==
    LET p == Greatest(CreateGroup2Starts(s, i))
    IN  SubSeq(s, p, Find(s, "\n", p) - 1)

\* re.search(r'looks?\s+like\s+(\w+)', s): where "like\s+" ends in the match
\* at i, 0 when no match
LooksLikeWord(s, i) ==
    LET l == IF MatchAt(<<"l","o","o","k","s">>, s, i) THEN AfterWordSpace(<<"l","o","o","k","s">>, s, i)
             ELSE AfterWordSpace(<<"l","o","o","k">>, s, i)
        k == IF l # 0 THEN AfterWordSpace(<<"l","i","k","e">>, s, l) ELSE 0
    IN  IF k # 0 /\ k <= Len(s) /\ IsWordChar(s[k]) THEN k ELSE 0

MaterialMatches(s) == {i \in 1..Len(s) : LooksLikeWord(s, i) # 0}

MaterialGroup(s, i) ==
    LET k == LooksLikeWord(s, i)
    IN  SubSeq(s, k, SkipWord(s, k) - 1)

\* params after line 166, then lines 168-169 given what _parse_properties did
WithProperties(q1, props) ==
    IF props.raised
    THEN [raised |-> TRUE, value |-> EmptyDict]
    ELSE [raised |-> FALSE, value |-> Put(q1, "properties", props.value)]

\* the body of "if object_match:" for the match that starts at i;
\* [raised |-> TRUE] is the ValueError _parse_properties lets through
ObjectMatchParameters(user_input, i) ==
    IF CreateGroup2Starts(user_input, i) = {}
    THEN [raised |-> FALSE,
          value |-> Put(EmptyDict, "object_type", CreateGroup1(user_input, i))]
    ELSE WithProperties(Put(EmptyDict, "object_type", CreateGroup1(user_input, i)),
                        _parse_properties(CreateGroup2(user_input, i)))

\* a variant of CreateObjectParameters that sets object_type to '' when the
\* pattern does not match
CreateObjectParametersDefault(user_input) ==
    IF CreateMatches(user_input) # {}
    THEN ObjectMatchParameters(user_input, Least(CreateMatches(user_input)))
    ELSE [raised |-> FALSE, value |-> Put(EmptyDict, "object_type", <<>>)]

\* the branch intent_type == IntentType.CREATE_OBJECT
CreateObjectParameters(user_input) ==
    IF CreateMatches(user_input) # {}
    THEN ObjectMatchParameters(user_input, Least(CreateMatches(user_input)))
    ELSE [raised |-> FALSE, value |-> EmptyDict]

\* a variant of CreateMaterialParameters whose 'procedural' test is an elif of
\* the 'realistic' test
CreateMaterialParametersElif(user_input) ==
    LET m1 == IF MaterialMatches(user_input) # {}
              THEN Put(EmptyDict, "material_type",
                       MaterialGroup(user_input, Least(MaterialMatches(user_input))))
              ELSE EmptyDict
    IN  [raised |-> FALSE,
         value |-> IF Contains(<<"r","e","a","l","i","s","t","i","c">>, user_input)
                   THEN Put(m1, "realistic", TRUE)
                   ELSE IF Contains(<<"p","r","o","c","e","d","u","r","a","l">>, user_input)
                   THEN Put(m1, "procedural", TRUE)
                   ELSE m1]

\* the branch intent_type == IntentType.CREATE_MATERIAL
CreateMaterialParameters(user_input) ==
    LET m1 == IF MaterialMatches(user_input) # {}
              THEN Put(EmptyDict, "material_type",
                       MaterialGroup(user_input, Least(MaterialMatches(user_input))))
              ELSE EmptyDict
        m2 == IF Contains(<<"r","e","a","l","i","s","t","i","c">>, user_input)
              THEN Put(m1, "realistic", TRUE) ELSE m1
        m3 == IF Contains(<<"p","r","o","c","e","d","u","r","a","l">>, user_input)
              THEN Put(m2, "procedural", TRUE) ELSE m2
    IN  [raised |-> FALSE, value |-> m3]

\* a variant of AnimateObjectParameters that tests 'rotate' before 'bounce'
AnimateObjectParametersRotateFirst(user_input) ==
    [raised |-> FALSE,
     value  |-> Put(EmptyDict, "animation_type",
                    IF Contains(<<"r","o","t","a","t","e">>, user_input) THEN <<"r","o","t","a","t","i","o","n">>
                    ELSE IF Contains(<<"b","o","u","n","c","e">>, user_input) THEN <<"b","o","u","n","c","e">>
                    ELSE IF Contains(<<"s","c","a","l","e">>, user_input) THEN <<"s","c","a","l","e">>
                    ELSE <<"c","u","s","t","o","m">>)]

\* a variant of AnimateObjectParameters that tests user_input.startswith(...)
AnimateObjectParametersPrefix(user_input) ==
    [raised |-> FALSE,
     value  |-> Put(EmptyDict, "animation_type",
                    IF MatchAt(<<"b","o","u","n","c","e">>, user_input, 1) THEN <<"b","o","u","n","c","e">>
                    ELSE IF MatchAt(<<"r","o","t","a","t","e">>, user_input, 1) THEN <<"r","o","t","a","t","i","o","n">>
                    ELSE IF MatchAt(<<"s","c","a","l","e">>, user_input, 1) THEN <<"s","c","a","l","e">>
                    ELSE <<"c","u","s","t","o","m">>)]

\* the branch intent_type == IntentType.ANIMATE_OBJECT
AnimateObjectParameters(user_input) ==
    [raised |-> FALSE,
     value  |-> Put(EmptyDict, "animation_type",
                    IF Contains(<<"b","o","u","n","c","e">>, user_input) THEN <<"b","o","u","n","c","e">>
                    ELSE IF Contains(<<"r","o","t","a","t","e">>, user_input) THEN <<"r","o","t","a","t","i","o","n">>
                    ELSE IF Contains(<<"s","c","a","l","e">>, user_input) THEN <<"s","c","a","l","e">>
                    ELSE <<"c","u","s","t","o","m">>)]

\* a variant of _extract_parameters whose last branch is a plain else
_extract_parameters_else(user_input, intent_type) ==
    IF intent_type = "CREATE_OBJECT" THEN CreateObjectParameters(user_input)
    ELSE IF intent_type = "CREATE_MATERIAL" THEN CreateMaterialParameters(user_input)
    ELSE AnimateObjectParameters(user_input)

\* the if / elif chain on intent_type
_extract_parameters(user_input, intent_type) ==
    IF intent_type = "CREATE_OBJECT" THEN CreateObjectParameters(user_input)
    ELSE IF intent_type = "CREATE_MATERIAL" THEN CreateMaterialParameters(user_input)
    ELSE IF intent_type = "ANIMATE_OBJECT" THEN AnimateObjectParameters(user_input)
    ELSE [raised |-> FALSE, value |-> EmptyDict]

(***************************************************************************)
(* IntentParser._generate_suggestions                                      *)
(***************************************************************************)
\* a variant of _generate_suggestions that advises on every object type
_generate_suggestions_any_object(intent_type, parameters, context) ==
    IF intent_type = "CREATE_OBJECT" /\ "object_type" \in DOMAIN parameters
    THEN << "Consider beveling edges for smoother appearance",
            "Add subdivision surface for organic look",
            "Use array modifier for repetition" >>
    ELSE <<>>

_generate_suggestions(intent_type, parameters, context) ==
    LET suggestions == <<>>
    IN  IF intent_type = "CREATE_OBJECT" THEN
            LET object_type == Get(parameters, "object_type", <<>>)
            IN  IF object_type = <<"t","r","e","e">> THEN
                    suggestions \o
                    << "Consider adding a displacement modifier for realistic bark",
                       "Use particle system for leaves",
                       "Add subsurface scattering for realistic wood" >>
                ELSE IF object_type = <<"c","u","b","e">> THEN
                    suggestions \o
                    << "Consider beveling edges for smoother appearance",
                       "Add subdivision surface for organic look",
                       "Use array modifier for repetition" >>
                ELSE suggestions
        ELSE IF intent_type = "CREATE_MATERIAL" THEN
            LET material_type == Get(parameters, "material_type", <<>>)
            IN  IF material_type = <<"m","e","t","a","l">> THEN
                    suggestions \o
                    << "Add roughness map for realistic metal",
                       "Use environment texture for reflections",
                       "Consider adding scratches or wear" >>
                ELSE IF material_type = <<"w","o","o","d">> THEN
                    suggestions \o
                    << "Add wood grain texture",
                       "Use bump mapping for surface detail",
                       "Consider adding knots and variations" >>
                ELSE suggestions
        ELSE suggestions

(***************************************************************************)
(* IntentParser._load_patterns: the regular expressions, as written.       *)
(***************************************************************************)
_load_patterns ==
    [ CREATE_OBJECT |->
        << "create\\s+(?:a\\s+)?(\\w+)", "make\\s+(?:a\\s+)?(\\w+)",
           "add\\s+(?:a\\s+)?(\\w+)", "generate\\s+(?:a\\s+)?(\\w+)",
           "build\\s+(?:a\\s+)?(\\w+)" >>,
      MODIFY_OBJECT |->
        << "modify\\s+(?:the\\s+)?(\\w+)", "change\\s+(?:the\\s+)?(\\w+)",
           "edit\\s+(?:the\\s+)?(\\w+)", "update\\s+(?:the\\s+)?(\\w+)",
           "alter\\s+(?:the\\s+)?(\\w+)" >>,
      CREATE_MATERIAL |->
        << "create\\s+(?:a\\s+)?material\\s+(?:that\\s+)?(?:looks\\s+)?(?:like\\s+)?(\\w+)",
           "make\\s+(?:a\\s+)?material\\s+(?:that\\s+)?(?:looks\\s+)?(?:like\\s+)?(\\w+)",
           "add\\s+(?:a\\s+)?material\\s+(?:that\\s+)?(?:looks\\s+)?(?:like\\s+)?(\\w+)",
           "generate\\s+(?:a\\s+)?material\\s+(?:that\\s+)?(?:looks\\s+)?(?:like\\s+)?(\\w+)" >>,
      ANIMATE_OBJECT |->
        << "animate\\s+(?:the\\s+)?(\\w+)", "add\\s+animation\\s+to\\s+(?:the\\s+)?(\\w+)",
           "make\\s+(?:the\\s+)?(\\w+)\\s+move",
           "create\\s+animation\\s+for\\s+(?:the\\s+)?(\\w+)" >>,
      OPTIMIZE_SCENE |->
        << "optimize\\s+(?:the\\s+)?scene", "improve\\s+(?:the\\s+)?scene",
           "make\\s+(?:the\\s+)?scene\\s+better", "enhance\\s+(?:the\\s+)?scene" >>,
      RENDER_SCENE |->
        << "render\\s+(?:the\\s+)?scene", "create\\s+(?:a\\s+)?render",
           "generate\\s+(?:a\\s+)?render", "make\\s+(?:a\\s+)?render" >> ]

(***************************************************************************)
(* AthenaMistIntegration (ai_agent/core/athena_mist_integration.py).       *)
(* A str of the API is a sequence of characters; the texts the code holds  *)
(* as literals and never inspects are TLA+ strings.  None is NoneStr where *)
(* a str is expected and NoneDict where a dict is expected.                *)
(***************************************************************************)
\* the members of AthenaMistMode, in the order of the class
AthenaMistMode ==
    << "CREATIVE_ASSISTANT", "TECHNICAL_EXPERT", "ARTISTIC_MENTOR",
       "WORKFLOW_OPTIMIZER", "IMMERSIVE_STORYTELLER" >>

\* None, where the code expects a str
NoneStr == << "None" >>

\* None, where the code expects a dict
NoneDict == [NoneType |-> TRUE]

\* self.personality
_initialize_personality ==
    [ name                |-> "Athena",
      role                |-> "Creative AI Assistant",
      specializations     |-> "3D modeling, material creation, animation, lighting, rendering, workflow optimization",
      communication_style |-> "friendly and professional",
      creative_approach   |-> "inspirational and practical" ]

\* the sentence _build_system_prompt adds for the mode; None adds nothing
ModeInstructions(mode) ==
    IF mode = "CREATIVE_ASSISTANT"
    THEN "Focus on creative inspiration and artistic guidance."
    ELSE IF mode = "TECHNICAL_EXPERT"
    THEN "Focus on technical accuracy and workflow optimization."
    ELSE IF mode = "ARTISTIC_MENTOR"
    THEN "Focus on artistic development and creative techniques."
    ELSE IF mode = "WORKFLOW_OPTIMIZER"
    THEN "Focus on efficiency and performance optimization."
    ELSE IF mode = "IMMERSIVE_STORYTELLER"
    THEN "Focus on narrative context and immersive experiences."
    ELSE ""

\* the system prompt, as the values the f-string interpolates and the
\* sentence added for the mode; context.get on None is AttributeError
_build_system_prompt(mode, context, current_mode) ==
    IF context = NoneDict
    THEN [raised |-> TRUE, value |-> EmptyDict]
    ELSE [raised |-> FALSE,
          value |->
            [ communication_style |-> _initialize_personality.communication_style,
              role            |-> _initialize_personality.role,
              specializations |-> _initialize_personality.specializations,
              objects         |-> Len(Get(context, "objects", <<>>)),
              materials       |-> Len(Get(context, "materials", <<>>)),
              engine          |-> Get(Get(context, "render_settings", EmptyDict),
                                      "engine", "Unknown"),
              user_mode       |-> Get(context, "user_mode", "Object Mode"),
              mode            |-> IF mode # "None" THEN mode ELSE current_mode,
              instructions    |-> ModeInstructions(mode) ]]

\* self.conversation_history[-10:]
LastMessages(history) ==
    SubSeq(history, IF Len(history) > 10 THEN Len(history) - 9 ELSE 1, Len(history))

\* the payload around a system prompt that did not raise
Payload(system_prompt, message, history) ==
    [ model       |-> "athena-mist-v1",
      messages    |-> << [role |-> "system", content |-> system_prompt] >>
                      \o LastMessages(history)
                      \o << [role |-> "user", content |-> message] >>,
      temperature |-> "0.7",
      max_tokens  |-> 1000,
      stream      |-> FALSE ]

\* _prepare_payload: [raised |-> TRUE] is the AttributeError of the prompt
PreparedPayload(prompt, message, history) ==
    IF prompt.raised THEN [raised |-> TRUE, value |-> EmptyDict]
    ELSE [raised |-> FALSE, value |-> Payload(prompt.value, message, history)]

_prepare_payload(message, context, mode, history, current_mode) ==
    PreparedPayload(_build_system_prompt(mode, context, current_mode), message, history)

\* _get_headers
_get_headers(api_key) ==
    IF api_key # "None"
    THEN [ContentType |-> "application/json", UserAgent |-> "Blender-AI-Agent/1.0",
          Authorization |-> api_key]
    ELSE [ContentType |-> "application/json", UserAgent |-> "Blender-AI-Agent/1.0"]

\* content.split('\n'), from index i on
RECURSIVE SplitLines(_, _)
SplitLines(s, i) ==
    IF Find(s, "\n", i) > Len(s) THEN <<SubSeq(s, i, Len(s))>>
    ELSE <<SubSeq(s, i, Find(s, "\n", i) - 1)>> \o SplitLines(s, Find(s, "\n", i) + 1)

\* any(keyword in s for keyword in words)
AnyIn(words, s) == \E k \in 1..Len(words) : Contains(words[k], s)

\* the loop of _extract_suggestions over lines, from line i on
RECURSIVE SuggestionLoop(_, _)
SuggestionLoop(lines, i) ==
    IF i > Len(lines) THEN <<>>
    ELSE (IF AnyIn(<<<<"s","u","g","g","e","s","t">>, <<"t","r","y">>, <<"c","o","n","s","i","d","e","r">>, <<"r","e","c","o","m","m","e","n","d">>>>, Lower(lines[i]))
          THEN <<Strip(lines[i])>> ELSE <<>>)
         \o SuggestionLoop(lines, i + 1)

\* lst[:n]
Take(lst, n) == SubSeq(lst, 1, IF Len(lst) < n THEN Len(lst) ELSE n)

\* _extract_suggestions
_extract_suggestions(content) == Take(SuggestionLoop(SplitLines(content, 1), 1), 5)

\* re.findall(word + r'\s+(\w+)', s): group 1 of the matches from index i on
RECURSIVE FindAll(_, _, _)
FindAll(word, s, i) ==
    IF i > Len(s) THEN <<>>
    ELSE IF /\ AfterWordSpace(word, s, i) # 0
            /\ AfterWordSpace(word, s, i) <= Len(s)
            /\ IsWordChar(s[AfterWordSpace(word, s, i)])
    THEN <<SubSeq(s, AfterWordSpace(word, s, i),
                  SkipWord(s, AfterWordSpace(word, s, i)) - 1)>>
         \o FindAll(word, s, SkipWord(s, AfterWordSpace(word, s, i)))
    ELSE FindAll(word, s, i + 1)

\* the dicts appended for the matches of one pattern, from match n on
RECURSIVE MatchLoop(_, _)
MatchLoop(matches, n) ==
    IF n > Len(matches) THEN <<>>
    ELSE << [ type        |-> "suggestion",
              action      |-> matches[n],
              description |-> <<"A","c","t","i","o","n",":"," ">> \o matches[n] ] >>
         \o MatchLoop(matches, n + 1)

\* the loop of _extract_actions over action_patterns, from pattern k on
RECURSIVE PatternLoop(_, _, _)
PatternLoop(words, lowered, k) ==
    IF k > Len(words) THEN <<>>
    ELSE MatchLoop(FindAll(words[k], lowered, 1), 1)
         \o PatternLoop(words, lowered, k + 1)

\* _extract_actions
_extract_actions(content) ==
    PatternLoop(<<<<"c","r","e","a","t","e">>, <<"a","d","d">>, <<"m","o","d","i","f","y">>, <<"a","n","i","m","a","t","e">>, <<"r","e","n","d","e","r">>>>, Lower(content), 1)

\* _detect_mood
_detect_mood(content) ==
    IF AnyIn(<<<<"g","r","e","a","t">>, <<"e","x","c","e","l","l","e","n","t">>, <<"w","o","n","d","e","r","f","u","l">>, <<"a","m","a","z","i","n","g">>, <<"i","n","s","p","i","r","i","n","g">>>>, Lower(content))
    THEN "positive"
    ELSE IF AnyIn(<<<<"t","e","c","h","n","i","c","a","l">>, <<"p","r","e","c","i","s","e">>, <<"a","c","c","u","r","a","t","e">>, <<"e","f","f","i","c","i","e","n","t">>>>, Lower(content))
    THEN "technical"
    ELSE IF AnyIn(<<<<"c","r","e","a","t","i","v","e">>, <<"a","r","t","i","s","t","i","c">>, <<"b","e","a","u","t","i","f","u","l">>, <<"i","n","s","p","i","r","i","n","g">>, <<"i","m","a","g","i","n","a","t","i","v","e">>>>, Lower(content))
    THEN "creative"
    ELSE "neutral"

\* sum(1 for keyword in words if keyword in s), from word k on
RECURSIVE CountIn(_, _, _)
CountIn(words, s, k) ==
    IF k > Len(words) THEN 0
    ELSE (IF Contains(words[k], s) THEN 1 ELSE 0) + CountIn(words, s, k + 1)

\* the level for a technical_count and a word_count
Complexity(technical_count, word_count) ==
    IF technical_count > 3 \/ word_count > 200 THEN "advanced"
    ELSE IF technical_count > 1 \/ word_count > 100 THEN "intermediate"
    ELSE "beginner"

\* _assess_complexity
_assess_complexity(content) ==
    Complexity(CountIn(<<<<"m","o","d","i","f","i","e","r">>, <<"s","h","a","d","e","r">>, <<"t","e","x","t","u","r","e">>, <<"a","n","i","m","a","t","i","o","n">>, <<"r","e","n","d","e","r","i","n","g">>>>,
                       Lower(content), 1),
               Len(Split(content)))

\* focus_areas, as its items in insertion order
focus_areas ==
    << << "modeling",  <<<<"m","e","s","h">>, <<"g","e","o","m","e","t","r","y">>, <<"v","e","r","t","e","x">>, <<"f","a","c","e">>, <<"e","d","g","e">>, <<"m","o","d","e","l">>>> >>,
       << "materials", <<<<"m","a","t","e","r","i","a","l">>, <<"t","e","x","t","u","r","e">>, <<"s","h","a","d","e","r">>, <<"s","u","r","f","a","c","e">>, <<"a","p","p","e","a","r","a","n","c","e">>>> >>,
       << "animation", <<<<"a","n","i","m","a","t","e">>, <<"k","e","y","f","r","a","m","e">>, <<"m","o","t","i","o","n">>, <<"t","i","m","e","l","i","n","e">>, <<"a","c","t","i","o","n">>>> >>,
       << "lighting",  <<<<"l","i","g","h","t">>, <<"i","l","l","u","m","i","n","a","t","i","o","n">>, <<"s","h","a","d","o","w">>, <<"b","r","i","g","h","t","n","e","s","s">>, <<"e","x","p","o","s","u","r","e">>>> >>,
       << "rendering", <<<<"r","e","n","d","e","r">>, <<"o","u","t","p","u","t">>, <<"i","m","a","g","e">>, <<"q","u","a","l","i","t","y">>, <<"s","e","t","t","i","n","g","s">>>> >> >>

\* the scores dict of _identify_focus_area, as its items from area i on
RECURSIVE FocusScores(_, _)
FocusScores(content_lower, i) ==
    IF i > Len(focus_areas) THEN <<>>
    ELSE << << focus_areas[i][1], CountIn(focus_areas[i][2], content_lower, 1) >> >>
         \o FocusScores(content_lower, i + 1)

\* max(scores, key=scores.get) of _identify_focus_area: the first greatest
FirstGreatest(scores) == scores[MaxLoop(scores, 2, 1)][1]

\* _identify_focus_area
_identify_focus_area(content) == FirstGreatest(FocusScores(Lower(content), 1))

\* _extract_context
_extract_context(content) ==
    [ mood        |-> _detect_mood(content),
      complexity  |-> _assess_complexity(content),
      focus_area  |-> _identify_focus_area(content) ]

\* _generate_fallback_content
_generate_fallback_content(message) ==
    IF Contains(<<"c","r","e","a","t","e">>, Lower(message))
    THEN "I'd be happy to help you create something in Blender! What type of object are you thinking of? I can guide you through the process step by step."
    ELSE IF Contains(<<"m","a","t","e","r","i","a","l">>, Lower(message))
    THEN "Materials are essential for bringing your 3D objects to life! Would you like to create a realistic material, or are you looking for something more stylized?"
    ELSE IF Contains(<<"a","n","i","m","a","t","e">>, Lower(message))
    THEN "Animation brings movement and life to your creations! I can help you set up keyframes, create smooth motion, or add special effects."
    ELSE "I'm here to help with your 3D creation journey! Whether you need help with modeling, materials, animation, or rendering, I'm ready to assist."

\* the list _generate_fallback_suggestions builds for a context that is a dict
FallbackSuggestions(context) ==
    (IF Len(Get(context, "objects", <<>>)) = 0
     THEN << "Try creating a basic cube to get started with 3D modeling",
             "Consider adding some lighting to your scene" >>
     ELSE <<>>)
    \o (IF Len(Get(context, "materials", <<>>)) < 2
        THEN << "Create a new material to add visual interest to your objects",
                "Experiment with different material types like Principled BSDF" >>
        ELSE <<>>)
    \o << "Use the subdivision surface modifier for smoother geometry",
          "Try different viewport shading modes to see your work in different ways" >>

\* _generate_fallback_suggestions: context.get on None is AttributeError
_generate_fallback_suggestions(context) ==
    IF context = NoneDict
    THEN [raised |-> TRUE, value |-> <<>>]
    ELSE [raised |-> FALSE, value |-> Take(FallbackSuggestions(context), 3)]

\* an AthenaMistResponse; confidence in 1/Scale units
AthenaMistResponse(content, confidence, suggestions, actions, context, mode) ==
    [ content     |-> content,
      confidence  |-> confidence,
      suggestions |-> suggestions,
      actions     |-> actions,
      context     |-> context,
      mode        |-> mode ]

\* _fallback_response given what _generate_fallback_suggestions did
FallbackWith(content, suggestions, mode, current_mode) ==
    IF suggestions.raised
    THEN [raised |-> TRUE, value |-> EmptyDict]
    ELSE [raised |-> FALSE,
          value  |-> AthenaMistResponse(
                         content, (6 * Scale) \div 10, suggestions.value, <<>>,
                         [mood |-> "helpful", complexity |-> "intermediate",
                          focus_area |-> "general"],
                         IF mode # "None" THEN mode ELSE current_mode)]

\* _fallback_response: [raised |-> TRUE] is the AttributeError of a None context
_fallback_response(message, context, mode, current_mode) ==
    FallbackWith(_generate_fallback_content(message),
                 _generate_fallback_suggestions(context), mode, current_mode)

\* data.get('choices', [{}])[0].get('message', {}).get('content', ''), given
\* the list choices: [raised |-> TRUE] is the IndexError of an empty list
FirstContent(choices) ==
    IF Len(choices) = 0
    THEN [raised |-> TRUE, value |-> <<>>]
    ELSE [raised |-> FALSE,
          value  |-> Get(Get(choices[1], "message", EmptyDict), "content", <<>>)]

\* the try block of _parse_response after content is set, for a str content:
\* the history after the append and the response returned
Parsed(content, mode, history, current_mode) ==
    [ conversation_history |->
          Append(history, [role |-> "assistant", content |-> content]),
      response |->
          AthenaMistResponse(content, (9 * Scale) \div 10,
                             _extract_suggestions(content),
                             _extract_actions(content),
                             _extract_context(content),
                             IF mode # "None" THEN mode ELSE current_mode) ]

\* _parse_response given the content found: an IndexError, or the
\* AttributeError of None.split, ends in the except branch, which returns
\* _fallback_response("", {}, mode) and leaves the history as it is
ParsedOrFallback(content, mode, history, current_mode) ==
    IF content.raised \/ content.value = NoneStr
    THEN [ conversation_history |-> history,
           response |-> _fallback_response(<<>>, EmptyDict, mode, current_mode).value ]
    ELSE Parsed(content.value, mode, history, current_mode)

\* _parse_response
_parse_response(data, mode, history, current_mode) ==
    ParsedOrFallback(FirstContent(Get(data, "choices", <<EmptyDict>>)),
                     mode, history, current_mode)

(***************************************************************************)
(* ConfigManager.  A str is its text and a number or a bool the text that   *)
(* json.dump writes for it.  A section of the configuration is a dict, or  *)
(* what the file gave for it: a str is the record [scalar |-> text].        *)
(* DEFAULT_CONFIG.copy() and _merge_dicts copy one level, so the sections  *)
(* of self.config may be the dicts of DEFAULT_CONFIG itself; a process has *)
(* one ConfigManager and reads DEFAULT_CONFIG once, in __init__, so what   *)
(* set_api_key writes through that alias is read nowhere.                  *)
(***************************************************************************)
DEFAULT_CONFIG ==
    [ gemini      |-> [ api_key     |-> "",
                        model       |-> "gemini-pro",
                        temperature |-> "0.7",
                        max_tokens  |-> "2048" ],
      athena_mist |-> [ api_key  |-> "",
                        endpoint |-> "https://api.athenamist.ai/v1" ],
      ui          |-> [ theme         |-> "dark",
                        font_size     |-> "12",
                        show_advanced |-> "false" ] ]

\* isinstance(value, dict)
IsDict(value) == "scalar" \notin DOMAIN value

\* dict.update: the items of update over those of base
Updated(base, update) ==
    [ key \in (DOMAIN base) \cup (DOMAIN update) |->
          IF key \in DOMAIN update THEN update[key] ELSE base[key] ]

\* _merge_dicts(base, update) for a base whose values are dicts of scalars, as
\* those of DEFAULT_CONFIG are: a dict of update is merged into the dict of
\* base, one level down no value of base is a dict and update's value is taken
_merge_dicts(base, update) ==
    [ key \in (DOMAIN base) \cup (DOMAIN update) |->
          IF key \notin DOMAIN update THEN base[key]
          ELSE IF key \in DOMAIN base /\ IsDict(update[key])
               THEN Updated(base[key], update[key])
               ELSE update[key] ]

\* _load_config: the file merged into DEFAULT_CONFIG; DEFAULT_CONFIG when
\* there is no file, when json.load raises and when the JSON value is not an
\* object (_merge_dicts raises AttributeError on update.items())
_load_config(file) ==
    IF file.kind = "object" THEN _merge_dicts(DEFAULT_CONFIG, file.data)
    ELSE DEFAULT_CONFIG

\* get_api_key(service): the keyring's entry when there is one and it is not
\* "", else the api_key of the configuration; "" when keyring.get_password
\* raises and when the section is not a dict (AttributeError)
get_api_key(service, backend, entries, conf) ==
    IF backend = "failing" THEN ""
    ELSE IF Get(entries, service, "") # "" THEN entries[service]
         ELSE IF service \notin DOMAIN conf THEN ""
              ELSE IF ~IsDict(conf[service]) THEN ""
                   ELSE Get(conf[service], "api_key", "")

\* get_setting(section, key, default); AttributeError when the section is not
\* a dict
get_setting(conf, section, key, default) ==
    IF section \notin DOMAIN conf THEN [raised |-> FALSE, value |-> default]
    ELSE IF ~IsDict(conf[section]) THEN [raised |-> TRUE, value |-> "AttributeError"]
         ELSE [raised |-> FALSE, value |-> Get(conf[section], key, default)]

\* self.config after "if section not in self.config: self.config[section] = {}"
WithSection(conf, section) ==
    IF section \in DOMAIN conf THEN conf ELSE Put(conf, section, EmptyDict)

\* self.config[section][key] = value; TypeError when the section is not a
\* dict
SetItem(conf, section, key, value) ==
    IF IsDict(conf[section])
    THEN [raised |-> FALSE, config |-> Put(conf, section, Put(conf[section], key, value))]
    ELSE [raised |-> TRUE, config |-> conf]

\* del d[key]
Del(d, key) == [x \in (DOMAIN d) \ {key} |-> d[x]]

\* the configuration after lines 122-124 of delete_api_key; "api_key" in a
\* section that is a str is a substring test, False for the texts of the model
WithoutApiKey(conf, service) ==
    IF service \in DOMAIN conf /\ IsDict(conf[service]) /\ "api_key" \in DOMAIN conf[service]
    THEN Put(conf, service, Del(conf[service], "api_key"))
    ELSE conf

(***************************************************************************)
(* GeminiIntegration (core/gemini_integration.py).  A GeminiIntegration is *)
(* a record of its fields; the text of a response is a tuple of characters *)
(* and a confidence is in 1/Scale units.  What the host and the network do *)
(* is an input of the operators: whether aiohttp.ClientSession can be      *)
(* built, whether bpy gives the scene to _get_scene_info, and the reply to *)
(* the request.                                                            *)
(***************************************************************************)
\* GeminiMode.MODELING_ASSISTANT
MODELING_ASSISTANT == "modeling_assistant"

\* a GeminiResponse; confidence in 1/Scale units
GeminiResponse(content, confidence, suggestions, actions, context, mode) ==
    [ content     |-> content,
      confidence  |-> confidence,
      suggestions |-> suggestions,
      actions     |-> actions,
      context     |-> context,
      mode        |-> mode ]

\* GeminiIntegration(api_key, mode) when the ConfigManager holds the key stored
GeminiIntegration(key, stored, mode) ==
    [ api_key              |-> IF key # "" THEN key ELSE stored,
      mode                 |-> mode,
      session              |-> "None",
      conversation_history |-> <<>>,
      last_response        |-> NoneDict,
      _initialized         |-> FALSE ]

\* initialize: the instance afterwards; built says that ClientSession(...) did not raise
initialize(self, built) ==
    IF self.api_key = "" \/ ~built THEN self
    ELSE [self EXCEPT !.session = "ClientSession", !._initialized = TRUE]

\* close
close(self) == [self EXCEPT !.session = "None", !._initialized = FALSE]

\* context or {}
OrEmptyDict(context) == IF context = NoneDict THEN EmptyDict ELSE context

\* a variant of _create_error_response that keeps the confidence of a good response
_create_error_responseConfident(self, message, context) ==
    GeminiResponse(message, (9 * Scale) \div 10, <<>>, <<>>, OrEmptyDict(context), self.mode)

\* _create_error_response
_create_error_response(self, message, context) ==
    GeminiResponse(message, 0, <<>>, <<>>, OrEmptyDict(context), self.mode)

\* sep.join(parts)
RECURSIVE Join(_, _, _)
Join(sep, parts, i) ==
    IF i > Len(parts) THEN <<>>
    ELSE IF i = Len(parts) THEN parts[i]
         ELSE parts[i] \o sep \o Join(sep, parts, i + 1)

\* the first index >= i of s at which p occurs (Len(s)+1 when none)
RECURSIVE FindSub(_, _, _)
FindSub(p, s, i) ==
    IF i > Len(s) THEN Len(s) + 1
    ELSE IF MatchAt(p, s, i) THEN i ELSE FindSub(p, s, i + 1)

\* s.split(p), from index i on
RECURSIVE SplitOn(_, _, _)
SplitOn(p, s, i) ==
    IF FindSub(p, s, i) > Len(s) THEN <<SubSeq(s, i, Len(s))>>
    ELSE <<SubSeq(s, i, FindSub(p, s, i) - 1)>> \o SplitOn(p, s, FindSub(p, s, i) + Len(p))

\* [s.strip() for s in pieces if s.strip()], from piece i on
RECURSIVE Sentences(_, _)
Sentences(pieces, i) ==
    IF i > Len(pieces) THEN <<>>
    ELSE (IF Strip(pieces[i]) # <<>> THEN <<Strip(pieces[i])>> ELSE <<>>)
         \o Sentences(pieces, i + 1)

\* [s for s in sentences if not s.startswith((" ", "\n"))], from sentence i on
RECURSIVE NotIndented(_, _)
NotIndented(sentences, i) ==
    IF i > Len(sentences) THEN <<>>
    ELSE (IF sentences[i] # <<>> /\ sentences[i][1] \in {" ", "\n"} THEN <<>> ELSE <<sentences[i]>>)
         \o NotIndented(sentences, i + 1)

\* lst[-n:]
LastOf(lst, n) == SubSeq(lst, IF Len(lst) > n THEN Len(lst) - n + 1 ELSE 1, Len(lst))

\* the suggestions of _extract_suggestions given the sentences of the content
SuggestionsOf(sentences) ==
    IF Len(sentences) > 1 THEN NotIndented(LastOf(sentences, 3), 1) ELSE <<>>

\* GeminiIntegration._extract_suggestions
GeminiSuggestions(content) ==
    IF Contains(<<"y","o","u"," ","m","i","g","h","t"," ","w","a","n","t"," ","t","o">>, Lower(content)) \/ Contains(<<"y","o","u"," ","c","o","u","l","d"," ","t","r","y">>, Lower(content))
    THEN SuggestionsOf(Sentences(SplitOn(<<".">>, content, 1), 1))
    ELSE <<>>

\* GRAVE ACCENT, the character of a code fence
GraveAccent == "U+0060"

\* the fence of a code block
CodeFence == <<GraveAccent, GraveAccent, GraveAccent>>

\* GeminiIntegration._extract_actions
GeminiActions(content) ==
    IF Contains(CodeFence, content)
    THEN << [ type        |-> "code_execution",
              description |-> "Execute the provided code",
              code        |-> Strip(SplitOn(CodeFence, content, 1)[2]) ] >>
    ELSE <<>>

\* part.get('text', '') for part in parts, from part i on
RECURSIVE PartTexts(_, _)
PartTexts(parts, i) ==
    IF i > Len(parts) THEN <<>>
    ELSE <<Get(parts[i], "text", <<>>)>> \o PartTexts(parts, i + 1)

\* r['category'] for r in safety_ratings if r.get('blocked', False), from rating i on
RECURSIVE BlockedCategories(_, _)
BlockedCategories(ratings, i) ==
    IF i > Len(ratings) THEN <<>>
    ELSE (IF Get(ratings[i], "blocked", FALSE) THEN <<ratings[i].category>> ELSE <<>>)
         \o BlockedCategories(ratings, i + 1)

\* the content _handle_standard_response reads in a candidate
CandidateContent(candidate) ==
    IF BlockedCategories(Get(candidate, "safetyRatings", <<>>), 1) # <<>>
    THEN <<"I","'","m"," ","s","o","r","r","y",","," ","b","u","t"," ","I"," ","c","a","n","'","t"," ","p","r","o","v","i","d","e"," ","a"," ","r","e","s","p","o","n","s","e"," ","t","o"," ","t","h","a","t"," ","q","u","e","r","y"," ","d","u","e"," ","t","o"," ","c","o","n","t","e","n","t"," ","s","a","f","e","t","y"," ","r","e","s","t","r","i","c","t","i","o","n","s"," ","(">>
         \o Join(<<","," ">>, BlockedCategories(Get(candidate, "safetyRatings", <<>>), 1), 1) \o <<")",".">>
    ELSE Join(<<"\n">>, PartTexts(Get(Get(candidate, "content", EmptyDict), "parts", <<>>), 1), 1)

\* the content _handle_standard_response reads in the JSON of the reply
StandardContent(result) ==
    IF Get(result, "candidates", <<>>) # <<>> THEN CandidateContent(result.candidates[1])
    ELSE <<"I","'","m"," ","s","o","r","r","y",","," ","I"," ","c","o","u","l","d","n","'","t"," ","g","e","n","e","r","a","t","e"," ","a"," ","r","e","s","p","o","n","s","e","."," ","P","l","e","a","s","e"," ","t","r","y"," ","a","g","a","i","n",".">>

\* the GeminiResponse _handle_standard_response builds from the content
StandardResponse(self, content, context) ==
    GeminiResponse(content, (9 * Scale) \div 10, GeminiSuggestions(content),
                   GeminiActions(content), OrEmptyDict(context), self.mode)

\* the end of _handle_standard_response: the instance once response_obj is built
Remembered(self, query, response_obj) ==
    [self EXCEPT !.conversation_history =
                     IF query # <<>> /\ response_obj.content # <<>>
                     THEN Append(@, <<query, response_obj>>) ELSE @,
                 !.last_response = response_obj]

\* json.dumps(context, indent=2) raises: in the contexts of the model the key
\* active_object holds an object of Blender, which json cannot serialise
DumpRaises(context) == "active_object" \in DOMAIN context

\* str(status), from the digits of n
RECURSIVE Str(_)
Str(n) ==
    IF n < 10 THEN <<<<"0","1","2","3","4","5","6","7","8","9">>[n + 1]>>
    ELSE Str(n \div 10) \o <<<<"0","1","2","3","4","5","6","7","8","9">>[(n % 10) + 1]>>

\* what one line of the stream does to _handle_streaming_response: it is
\* skipped, it appends texts, it returns the error of the API or it raises
LineEffect(line) ==
    IF line.kind # "data" THEN [kind |-> "skip"]
    ELSE IF ~IsDict(line.data) THEN [kind |-> "raise", text |-> <<"'","l","i","s","t","'"," ","o","b","j","e","c","t"," ","h","a","s"," ","n","o"," ","a","t","t","r","i","b","u","t","e"," ","'","g","e","t","'">>]
    ELSE IF "error" \in DOMAIN line.data
         THEN (IF IsDict(line.data.error)
               THEN [kind |-> "error", text |-> Get(line.data.error, "message", <<"U","n","k","n","o","w","n"," ","e","r","r","o","r">>)]
               ELSE [kind |-> "raise", text |-> <<"'","s","t","r","'"," ","o","b","j","e","c","t"," ","h","a","s"," ","n","o"," ","a","t","t","r","i","b","u","t","e"," ","'","g","e","t","'">>])
    ELSE IF Get(line.data, "candidates", <<>>) = <<>> THEN [kind |-> "skip"]
    ELSE [kind |-> "parts",
          parts |-> Get(Get(line.data.candidates[1], "content", EmptyDict), "parts", <<>>)]

\* part['text'] for part in parts if 'text' in part, from part i on
RECURSIVE TextsIn(_, _)
TextsIn(parts, i) ==
    IF i > Len(parts) THEN <<>>
    ELSE (IF "text" \in DOMAIN parts[i] THEN <<parts[i].text>> ELSE <<>>)
         \o TextsIn(parts, i + 1)

\* the loop of _handle_streaming_response over the lines, from line i on, with
\* the content_parts collected so far
RECURSIVE StreamLoop(_, _, _)
StreamLoop(lines, i, content_parts) ==
    IF i > Len(lines) THEN [kind |-> "content", text |-> Strip(Join(<<>>, content_parts, 1))]
    ELSE IF LineEffect(lines[i]).kind \in {"error", "raise"} THEN LineEffect(lines[i])
    ELSE IF LineEffect(lines[i]).kind = "skip" THEN StreamLoop(lines, i + 1, content_parts)
    ELSE StreamLoop(lines, i + 1, content_parts \o TextsIn(LineEffect(lines[i]).parts, 1))

\* the except Exception clause of process_query, e being the exception with str(e) = text
Excepted(self, text, context) ==
    [ self     |-> self,
      response |-> _create_error_response(self,
                       <<"A","n"," ","e","r","r","o","r"," ","o","c","c","u","r","r","e","d"," ","w","h","i","l","e"," ","p","r","o","c","e","s","s","i","n","g"," ","y","o","u","r"," ","r","e","q","u","e","s","t",":"," ">> \o text, context) ]

\* _handle_streaming_response given what the loop over the lines ended with
Streamed(self, end, context) ==
    IF end.kind = "raise" THEN Excepted(self, end.text, context)
    ELSE IF end.kind = "error"
         THEN [ self     |-> self,
                response |-> _create_error_response(self, <<"A","P","I"," ","E","r","r","o","r",":"," ">> \o end.text, context) ]
    ELSE [ self     |-> [self EXCEPT !.last_response =
                            GeminiResponse(end.text, (9 * Scale) \div 10, <<>>, <<>>,
                                           OrEmptyDict(context), self.mode)],
           response |-> GeminiResponse(end.text, (9 * Scale) \div 10, <<>>, <<>>,
                                       OrEmptyDict(context), self.mode) ]

\* _handle_standard_response given the response_obj it built
Standard(self, query, response_obj) ==
    [ self |-> Remembered(self, query, response_obj), response |-> response_obj ]

\* process_query from the answer to session.post on: the instance and the
\* GeminiResponse returned
Answered(self, query, context, stream, answer) ==
    IF answer.kind = "raise" THEN Excepted(self, answer.text, context)
    ELSE IF answer.kind = "timeout"
         THEN [ self     |-> self,
                response |-> _create_error_response(self,
                                 <<"R","e","q","u","e","s","t"," ","t","i","m","e","d"," ","o","u","t","."," ","P","l","e","a","s","e"," ","t","r","y"," ","a","g","a","i","n",".">>, context) ]
    ELSE IF answer.status # 200
         THEN [ self     |-> self,
                response |-> _create_error_response(self,
                                 <<"A","P","I"," ","E","r","r","o","r",":"," ">> \o Str(answer.status) \o <<" ","-"," ">> \o answer.text,
                                 context) ]
    ELSE IF stream THEN Streamed(self, StreamLoop(answer.lines, 1, <<>>), context)
    ELSE IF answer.result = NoneDict
         THEN Excepted(self, <<"A","t","t","e","m","p","t"," ","t","o"," ","d","e","c","o","d","e"," ","J","S","O","N"," ","w","i","t","h"," ","u","n","e","x","p","e","c","t","e","d"," ","m","i","m","e","t","y","p","e">>, context)
    ELSE Standard(self, query, StandardResponse(self, StandardContent(answer.result), context))

\* _build_prompt and the lines of process_query before session.post: the text
\* of the exception raised, <<>> when none is; conf is the config of the
\* ConfigManager and scene whether bpy gives _get_scene_info what it reads
PromptRaises(conf, scene, context) ==
    IF get_setting(conf, "gemini", "temperature", "0.7").raised
    THEN <<"'","s","t","r","'"," ","o","b","j","e","c","t"," ","h","a","s"," ","n","o"," ","a","t","t","r","i","b","u","t","e"," ","'","g","e","t","'">>
    ELSE IF ~scene THEN <<"'","b","p","y","_","p","r","o","p","_","c","o","l","l","e","c","t","i","o","n","'"," ","o","b","j","e","c","t"," ","h","a","s"," ","n","o"," ","a","t","t","r","i","b","u","t","e"," ","'","a","c","t","i","v","e","'">>
    ELSE IF context # NoneDict /\ DumpRaises(context)
         THEN <<"O","b","j","e","c","t"," ","o","f"," ","t","y","p","e"," ","O","b","j","e","c","t"," ","i","s"," ","n","o","t"," ","J","S","O","N"," ","s","e","r","i","a","l","i","z","a","b","l","e">>
    ELSE <<>>

\* process_query up to session.post: the instance, and the GeminiResponse
\* returned when the request is not made (NoneDict when it is made)
Requested(self, conf, built, scene, context) ==
    IF ~self._initialized /\ ~initialize(self, built)._initialized
    THEN [ self     |-> self,
           response |-> _create_error_response(self,
                            <<"F","a","i","l","e","d"," ","t","o"," ","i","n","i","t","i","a","l","i","z","e"," ","G","e","m","i","n","i"," ","i","n","t","e","g","r","a","t","i","o","n">>, context) ]
    ELSE IF PromptRaises(conf, scene, context) # <<>>
         THEN Excepted(IF self._initialized THEN self ELSE initialize(self, built),
                       PromptRaises(conf, scene, context), context)
    ELSE [ self     |-> IF self._initialized THEN self ELSE initialize(self, built),
           response |-> NoneDict ]

(***************************************************************************)
(* The inputs of the model.                                                *)
(***************************************************************************)
\* a text is built from at most MaxPieces fragments
MaxPieces == 2

\* at most MaxThreads threads call parse on the one parser at a time
MaxThreads == 2

Fragments ==
    {
      <<"c","r","e","a","t","e"," ","a"," ","c","u","b","e">>,
      <<"C","r","e","a","t","e","\t","a"," "," ","T","R","E","E"," ">>,
      <<" ","w","i","t","h"," ","s","i","z","e"," ","5"," ","a","t"," ","(","1",","," ","2",")"," ","c","o","l","o","r"," ","r","e","d">>,
      <<" ","w","i","t","h"," ","a","t"," ","(","1",","," ","b",")"," ">>,
      <<"m","a","k","e"," ","a"," ","m","a","t">>,
      <<" ","l","o","o","k","s"," ","l","i","k","e"," ","m","e","t","a","l">>,
      <<"a","n","i","m","a","t","e"," ">>,
      <<"t","e","x">>,
      <<" ","\n"," ">>,
      <<"z","z","z">>
    }

\* the texts of at most n fragments
RECURSIVE TextsOf(_)
TextsOf(n) ==
    IF n = 0 THEN {<<>>}
    ELSE TextsOf(n - 1) \cup {x \o f : x \in TextsOf(n - 1), f \in Fragments}

\* further texts: the examples of the documentation and single cases
Examples ==
    {
      <<"C","r","e","a","t","e"," "," "," ","A","\t","C","u","b","e">>,
      <<"C","r","e","a","t","e"," ","a"," ","c","u","b","e">>,
      <<"c","r","e","a","t","e"," ","a"," ","m","a","t","e","r","i","a","l"," ","t","h","a","t"," ","l","o","o","k","s"," ","l","i","k","e"," ","m","e","t","a","l">>,
      <<"a","n","i","m","a","t","e"," ","t","h","e"," ","c","h","a","r","a","c","t","e","r"," ","w","i","t","h"," ","a"," ","b","o","u","n","c","e">>,
      <<"c","r","e","a","t","e"," ","a"," ","c","u","b","e"," ","w","i","t","h"," ","s","i","z","e"," ","5"," ","a","t"," ","(","1",","," ","2",","," ","3",")"," ","c","o","l","o","r"," ","r","e","d">>,
      <<"l","i","g","h","t">>,
      <<"L","I","G","H","T"," ","t","h","e"," ","s","c","e","n","e">>,
      <<"r","e","n","d","e","r"," ","i","t">>,
      <<"a","n","i","m","a","t","i","o","n">>,
      <<"m","a","t",".">>,
      <<"o","b","j"," ","m","o","d"," ","a","n","i","m">>,
      <<"m","o","d","e","l"," ","m","a","t","r","i","x"," ","l","i","g","h","t","i","n","g">>,
      <<"c","r","e","a","t","e"," ","a"," ","c","u","b","e"," ","w","i","t","h"," ","i","t">>,
      <<"c","r","e","a","t","e"," ","a"," ","t","r","e","e"," ","w","i","t","h"," ","a","t"," ","(","1",",",",","2",")">>,
      <<"h","e","l","p">>,
      <<DoubleStruckC, "u","b","e">>,
      <<"c","r","e","a","t","e"," ","a"," ", LongS, "a","w">>,
      <<"a","n","i","m","a","t","e"," ","r","o","t","a","t","e"," ","t","h","e","n"," ","b","o","u","n","c","e">>,
      <<"a","n","i","m","a","t","e"," ","s","c","a","l","e"," ","a","n","d"," ","r","o","t","a","t","e">>,
      <<"a","n","i","m","a","t","e"," ","s","c","a","l","e">>,
      <<"r","e","a","l","i","s","t","i","c"," ","m","a","t","e","r","i","a","l">>,
      <<"p","r","o","c","e","d","u","r","a","l"," ","m","a","t","e","r","i","a","l"," ","s","h","a","d","e","r">>,
      <<"r","e","a","l","i","s","t","i","c"," ","p","r","o","c","e","d","u","r","a","l"," ","m","a","t","e","r","i","a","l"," ","l","o","o","k","s"," ","l","i","k","e"," ","w","o","o","d">>,
      <<"m","a","t","e","r","i","a","l"," ","l","o","o","k","s"," ","l","i","k","e"," ","w","o","o","d">>,
      <<"c","r","e","a","t","e"," ","a"," ","s","p","h","e","r","e">>,
      <<"c","r","e","a","t","e"," ","a"," ","c","u","b","e"," ","w","i","t","h"," ","s","i","z","e"," ","5">>
    }

Texts == TextsOf(MaxPieces) \cup Examples

\* the texts the threads of the concurrent specification pass
SharedTexts ==
    { <<"C","r","e","a","t","e"," ","a"," ","c","u","b","e">>,
      <<"m","a","t"," ","l","o","o","k","s"," ","l","i","k","e"," ","w","o","o","d">>,
      <<"c","r","e","a","t","e"," ","i","t"," ","w","i","t","h"," ","a","t"," ","(","x",")">> }

Threads == 1..MaxThreads

\* AthenaMistPreferences.max_conversation_history: its least value
PreferenceMin == 10

\* AthenaMistPreferences.max_conversation_history: its default
PreferenceDefault == 50

\* the API gives at most MaxReplies well-formed replies to one integration
MaxReplies == 2

\* in the long conversation the API gives at most MaxHistory well-formed replies
MaxHistory == 11

\* the texts of the callers of parse while the assistant is under study
AssistantTexts ==
    { <<"C","r","e","a","t","e"," ","a"," ","c","u","b","e">>,
      <<"c","r","e","a","t","e"," ","i","t"," ","w","i","t","h"," ","a","t"," ","(","x",")">> }

\* the messages a user sends
UserMessages ==
    { <<"h","e","l","l","o">>,
      <<"C","r","e","a","t","e"," ","a"," ","t","r","e","e">>,
      <<"n","e","w"," ","M","a","t","e","r","i","a","l">>,
      <<"a","n","i","m","a","t","e"," ","i","t">> }

\* the context of the example at the end of the module
ExampleContext ==
    [ objects         |-> << [name |-> "Cube", type |-> "MESH"] >>,
      materials       |-> << [name |-> "Material"] >>,
      render_settings |-> [engine |-> "CYCLES"],
      user_mode       |-> "Object Mode" ]

\* the contexts a caller passes: the default None, {}, and scenes
SceneContexts ==
    << NoneDict,
       EmptyDict,
       ExampleContext,
       [ objects   |-> <<>>,
         materials |-> << [name |-> "Metal"], [name |-> "Wood"] >> ] >>

\* a reply text of the API
ReplyContent ==
    <<"G","r","e","a","t"," ","i","d","e","a","!","\n"," "," ","T","r","y"," ","t","o"," ","c","r","e","a","t","e"," "," ","a"," ","c","u","b","e"," ","a","n","d"," ","A","d","d"," ","l","i","g","h","t"," ","\n","t","h","e","n"," ","r","e","n","d","e","r"," ","i","t","\n","C","o","n","s","i","d","e","r"," ","a"," ","s","h","a","d","e","r"," ","t","e","x","t","u","r","e">>

\* what may come of the request, first the outcomes that leave the history as
\* it is: the request raises; a status other than 200; a body that is not
\* JSON; a body without a choice; a choice whose content is null
FailedReplies ==
    << [kind |-> "raise",  status |-> 0,   json |-> "none",  data |-> EmptyDict],
       [kind |-> "answer", status |-> 500, json |-> "none",  data |-> EmptyDict],
       [kind |-> "answer", status |-> 200, json |-> "raise", data |-> EmptyDict],
       [kind |-> "answer", status |-> 200, json |-> "ok",    data |-> [choices |-> <<>>]],
       [kind |-> "answer", status |-> 200, json |-> "ok",
        data |-> [choices |-> << [message |-> [content |-> NoneStr]] >>]] >>

\* the well-formed replies: {} and a body with a content
ParsedReplies ==
    << [kind |-> "answer", status |-> 200, json |-> "ok", data |-> EmptyDict],
       [kind |-> "answer", status |-> 200, json |-> "ok",
        data |-> [choices |-> << [message |-> [content |-> ReplyContent]] >>]] >>

Replies == FailedReplies \o ParsedReplies

\* ai_agent_config.json as a process may find it: no file; a text that is not
\* JSON; a JSON array; objects, the second with a section that is not an object
ConfigFiles ==
    << [kind |-> "absent",  data |-> EmptyDict],
       [kind |-> "invalid", data |-> EmptyDict],
       [kind |-> "array",   data |-> EmptyDict],
       [kind |-> "object",  data |-> [gemini |-> [model |-> "gemini-1.5"],
                                      tools  |-> [grid |-> "false"]]],
       [kind |-> "object",  data |-> [gemini |-> [scalar |-> "off"]]] >>

\* no call of a method of ConfigManager yet
NoCall ==
    [ op |-> "None", service |-> "", key |-> "", save_to_keyring |-> FALSE,
      returned |-> FALSE, value |-> "" ]

\* at most MaxTasks tasks of Gemini queries are created in one run of Blender
MaxTasks == 2

\* the direct caller of one GeminiIntegration calls process_query at most MaxCalls times
MaxCalls == 2

\* the scene_context _get_scene_context gives _process_query_async
SceneContext ==
    [ frame_current    |-> 1,
      frame_start      |-> 1,
      frame_end        |-> 250,
      render_engine    |-> "CYCLES",
      selected_objects |-> <<>>,
      mode             |-> "OBJECT" ]

\* the reply of the API with one candidate of one part
Candidates(text, ratings) ==
    [ candidates |-> << [ content       |-> [parts |-> << [text |-> text] >>],
                          safetyRatings |-> ratings ] >> ]

\* no reply: the request has not been made or not been answered
NoAnswer == [kind |-> "None"]

\* what the network and the API can answer to the request for a query: the
\* request raises, it times out, or a status comes with the text of an error,
\* the JSON of the body (NoneDict when it is no JSON) and the lines of the
\* stream
GeminiReplies(query) ==
    << [ kind |-> "raise", text |-> <<"C","a","n","n","o","t"," ","c","o","n","n","e","c","t"," ","t","o"," ","h","o","s","t">> ],
       [ kind |-> "timeout" ],
       [ kind |-> "answer", status |-> 500, text |-> <<"q","u","o","t","a">>,
         result |-> NoneDict, lines |-> <<>> ],
       [ kind |-> "answer", status |-> 200, text |-> <<>>,
         result |-> Candidates(<<"A","d","d"," ","a"," ">> \o query, <<>>),
         lines  |-> << [kind |-> "data", data |-> Candidates(<<" ","A","d","d">>, <<>>)],
                       [kind |-> "other"],
                       [kind |-> "data", data |-> Candidates(<<" ","a"," ">> \o query \o <<" ">>, <<>>)] >> ],
       [ kind |-> "answer", status |-> 200, text |-> <<>>,
         result |-> Candidates(<<"Y","o","u"," ","c","o","u","l","d"," ","t","r","y"," ","a"," ">> \o query \o <<"."," ","S","c","a","l","e"," ","i","t","."," ","R","u","n"," ">> \o CodeFence
                               \o <<" ","s","c","a","l","e","(",")"," ">> \o CodeFence, <<>>),
         lines  |-> << [kind |-> "invalid"],
                       [kind |-> "data", data |-> [error |-> [message |-> <<"q","u","o","t","a">>]]] >> ],
       [ kind |-> "answer", status |-> 200, text |-> <<>>,
         result |-> Candidates(<<"A","d","d"," ","a"," ">> \o query,
                               << [category |-> <<"H","A","R","M","_","C","A","T","E","G","O","R","Y","_","H","A","R","A","S","S","M","E","N","T">>, blocked |-> FALSE],
                                  [category |-> <<"H","A","R","M","_","C","A","T","E","G","O","R","Y","_","D","A","N","G","E","R","O","U","S","_","C","O","N","T","E","N","T">>, blocked |-> TRUE] >>),
         lines  |-> << [kind |-> "data", data |-> [scalar |-> "[]"]] >> ],
       [ kind |-> "answer", status |-> 200, text |-> <<>>,
         result |-> NoneDict,
         lines  |-> << [kind |-> "data", data |-> [error |-> [scalar |-> "quota"]]] >> ],
       [ kind |-> "answer", status |-> 200, text |-> <<>>,
         result |-> EmptyDict,
         lines  |-> << [kind |-> "empty"], [kind |-> "data", data |-> EmptyDict] >> ],
       [ kind |-> "answer", status |-> 200, text |-> <<>>,
         result |-> [ candidates |-> << [content |-> [parts |-> <<>>]] >> ],
         lines  |-> << [kind |-> "data",
                        data |-> [ candidates |-> << [content |-> [parts |-> << [inlineData |-> "png"] >>]] >> ]] >> ] >>

\* a task of the event loop that has not run yet: caller is "operator" for
\* _process_query_async and "script" for test_conversation; pc is where the
\* coroutine is suspended; gemini is its GeminiIntegration; query, context,
\* stream and answer belong to its call of process_query, response is
\* what the call returned and raised the exception that left it
NewTask(caller, key, query) ==
    [ caller      |-> caller,
      pc          |-> "created",
      api_key     |-> key,
      gemini      |-> NoneDict,
      query       |-> query,
      context     |-> NoneDict,
      stream      |-> FALSE,
      answer      |-> NoAnswer,
      response    |-> NoneDict,
      raised      |-> "None",
      calls       |-> 0,
      must_cancel |-> FALSE ]

(***************************************************************************)
(* State.  keywords is IntentClassifier.keywords and patterns is           *)
(* IntentParser.patterns, both set by __init__.  Every other variable maps *)
(* a thread to a local of its call of parse; pc is the statement the call  *)
(* executes next.  workload is the environment: "single" is one thread     *)
(* that passes any text, "concurrent" is every thread passing the shared   *)
(* texts; in both the AthenaMist endpoint gives no well-formed reply.      *)
(* "assistant" is one thread that sends any message in any context and     *)
(* mode and gets any reply, "history" is one thread in a long conversation.*)
(*                                                                         *)
(* api_key, session, current_mode and conversation_history are the fields  *)
(* of the AthenaMistIntegration; max_conversation_history is the           *)
(* preference; message, context, mode, payload, reply and response are the *)
(* arguments and locals of the call of send_message in progress, which     *)
(* thread 1 makes.                                                         *)
(*                                                                         *)
(* _instance is ConfigManager._instance and config its self.config, both   *)
(* of one process of Blender; keyring is the keyring's entries of the       *)
(* service and keyring_backend how its calls end, config_file is            *)
(* ai_agent_config.json; the keyring and the file outlive the process.      *)
(* call is the last call of a method of the ConfigManager, with what it     *)
(* returned.  In the workload "config" a caller uses the ConfigManager in   *)
(* every way.  The parser, the assistant and the add-on share no state:     *)
(* the environment uses one of them at a time.                              *)
(***************************************************************************)
VARIABLES keywords, patterns, workload,
          pc, user_input, normalized_input, scene_context,
          intent_type, confidence, parameters, suggestions

VARIABLES api_key, session, current_mode, conversation_history,
          max_conversation_history,
          message, context, mode, payload, reply, response

VARIABLES _instance, config, keyring, keyring_backend, config_file, call

VARIABLES tasks, gemini_task, gemini_processing, gemini_response, gemini_suggestions

\* the AthenaMistIntegration, the preference and the call of send_message
assistant == << api_key, session, current_mode, conversation_history,
                max_conversation_history,
                message, context, mode, payload, reply, response >>

\* the ConfigManager, the keyring and the configuration file
manager == << _instance, config, keyring, keyring_backend, config_file, call >>

\* the tasks of the event loop and the properties of the Gemini panel
panel == << tasks, gemini_task, gemini_processing, gemini_response, gemini_suggestions >>

\* the add-on: all that lives in Blender's process
addon == << manager, panel >>

vars == << keywords, patterns, workload,
           pc, user_input, normalized_input, scene_context,
           intent_type, confidence, parameters, suggestions, assistant, addon >>

shared == << keywords, patterns, workload >>

\* no process of Blender has run the add-on: nothing of it is in use
AddonFresh ==
    /\ _instance = "None"
    /\ tasks = <<>>
    /\ keyring = EmptyDict
    /\ config_file.kind = "absent"

\* no call of parse or send_message is in progress and none has opened a
\* session
ParserFresh ==
    /\ \A t \in Threads : pc[t] = "idle"
    /\ session = "None"

\* the threads that call parse
Callers ==
    IF ~AddonFresh THEN {}
    ELSE IF workload = "concurrent" THEN Threads ELSE {1}

\* the texts they pass; once the assistant has been used the callers of the
\* "single" workload pass the assistant texts alone
Inputs ==
    IF workload = "single" /\ session = "None" THEN Texts
    ELSE IF workload = "concurrent" THEN SharedTexts
    ELSE AssistantTexts

\* the thread that calls send_message
Main == 1

\* the messages, contexts (indices of SceneContexts) and modes it passes
Messages ==
    IF ~AddonFresh THEN {}
    ELSE IF workload = "assistant" THEN UserMessages ELSE {<<"h","e","l","l","o">>}

Contexts == IF workload = "assistant" THEN 1..Len(SceneContexts) ELSE {1, 2}

Modes ==
    IF workload = "assistant"
    THEN {"None"} \cup {AthenaMistMode[i] : i \in 1..Len(AthenaMistMode)}
    ELSE {"None"}

\* how many well-formed replies the API gives
ReplyLimit ==
    IF workload = "assistant" THEN MaxReplies
    ELSE IF workload = "history" THEN MaxHistory
    ELSE 0

\* what may come of the next request (indices of Replies)
Answers ==
    IF Len(conversation_history) >= ReplyLimit THEN 1..Len(FailedReplies)
    ELSE IF workload = "history" THEN {2, Len(Replies)}
    ELSE 1..Len(Replies)

\* the services whose key is stored, the keys and the settings a caller passes
Services == IF workload = "config" THEN {"gemini", "other"} ELSE {"gemini"}

ApiKeys == IF workload = "config" THEN {"k1", "k2"} ELSE {"k1"}

Settings == { <<"gemini", "temperature", "0.5">> }

\* the queries typed in the panel, the keys, texts, contexts and stream flags
\* of the direct caller, the outcomes of ClientSession(...) and of the scene
\* access, the replies (indices of GeminiReplies) to the direct caller and to
\* the panel, and the numbers of tasks and calls
GeminiInputs ==
    IF workload = "gemini" /\ config_file \in {ConfigFiles[1], ConfigFiles[5]}
    THEN [ queries  |-> {<<"c","u","b","e">>, <<"l","a","m","p">>, <<" ">>},
           keys     |-> {"YOUR_API_KEY", ""},
           texts    |-> {<<"c","u","b","e">>, <<>>},
           contexts |-> {NoneDict, [active_object |-> "<bpy_struct>"]},
           streams  |-> BOOLEAN,
           built    |-> BOOLEAN,
           scene    |-> BOOLEAN,
           replies  |-> DOMAIN GeminiReplies(<<>>),
           streamed |-> {3, 4},
           tasks    |-> MaxTasks,
           calls    |-> MaxCalls ]
    ELSE [ queries  |-> IF workload # "gemini" /\ keyring = [gemini |-> "k1"]
                           /\ keyring_backend = "working" /\ config_file.kind = "absent"
                        THEN {<<"c","u","b","e">>} ELSE {},
           keys     |-> IF AddonFresh THEN {"YOUR_API_KEY"} ELSE {},
           texts    |-> {<<"c","u","b","e">>},
           contexts |-> {NoneDict},
           streams  |-> {FALSE},
           built    |-> {TRUE},
           scene    |-> {TRUE},
           replies  |-> {3},
           streamed |-> {3},
           tasks    |-> 1,
           calls    |-> 1 ]

\* the replies the network can give to the request of a task
AnswersTo(task) ==
    { GeminiReplies(task.query)[k] :
          k \in IF task.caller = "script" THEN GeminiInputs.replies
                ELSE GeminiInputs.streamed }

\* the config of the ConfigManager get_instance() returns
Loaded == IF _instance = "None" THEN _load_config(config_file) ELSE config

\* a task has left the event loop
Ended(task) == task.pc \in {"done", "cancelled"}

\* IntentParser.__init__ and IntentClassifier.__init__, no call of parse yet
Constructed ==
    /\ keywords = _load_keywords
    /\ patterns = _load_patterns
    /\ pc = [t \in Threads |-> "idle"]
    /\ user_input = [t \in Threads |-> <<>>]
    /\ normalized_input = [t \in Threads |-> <<>>]
    /\ scene_context = [t \in Threads |-> EmptyDict]
    /\ intent_type = [t \in Threads |-> "None"]
    /\ confidence = [t \in Threads |-> 0]
    /\ parameters = [t \in Threads |-> EmptyDict]
    /\ suggestions = [t \in Threads |-> <<>>]

\* AthenaMistIntegration(): AthenaMistIntegration.__init__ with its defaults,
\* no call of send_message yet
Integrated ==
    /\ api_key = "None"
    /\ session = "None"
    /\ current_mode = "CREATIVE_ASSISTANT"
    /\ conversation_history = <<>>
    /\ message = <<>>
    /\ context = NoneDict
    /\ mode = "None"
    /\ payload = EmptyDict
    /\ reply = EmptyDict
    /\ response = EmptyDict

\* register(): no task yet, the properties of the panel at their defaults
Registered ==
    /\ tasks = <<>>
    /\ gemini_task = 0
    /\ gemini_processing = FALSE
    /\ gemini_response = <<>>
    /\ gemini_suggestions = <<>>

\* the add-on is installed and Blender has not started: no ConfigManager, an
\* empty keyring that works, no configuration file
Installed ==
    /\ Registered
    /\ _instance = "None"
    /\ config = NoneDict
    /\ keyring = EmptyDict
    /\ keyring_backend = "working"
    /\ config_file = ConfigFiles[1]
    /\ call = NoCall

\* one caller, every text
Init ==
    /\ Constructed
    /\ Integrated
    /\ Installed
    /\ max_conversation_history = PreferenceDefault
    /\ workload = "single"

\* every thread a caller, the shared texts
InitConcurrent ==
    /\ Constructed
    /\ Integrated
    /\ Installed
    /\ max_conversation_history = PreferenceDefault
    /\ workload = "concurrent"

\* a variant of KeywordsAfterClassify that moves the first item to the end
KeywordsReordered(table) == Tail(table) \o <<Head(table)>>

\* self.intent_classifier.keywords once classify has run: classify reads it
KeywordsAfterClassify(table) == table

\* parse(user_input) is called with context=None
Call(t) ==
    /\ t \in Callers
    /\ pc[t] = "idle"
    /\ \E text \in Inputs : user_input' = [user_input EXCEPT ![t] = text]
    /\ pc' = [pc EXCEPT ![t] = "normalize"]
    /\ UNCHANGED << shared, assistant, addon, normalized_input, scene_context, intent_type,
                    confidence, parameters, suggestions >>

\* normalized_input = self._normalize_input(user_input); scene_context = {}
Normalize(t) ==
    /\ pc[t] = "normalize"
    /\ normalized_input' =
           [normalized_input EXCEPT ![t] = _normalize_input(user_input[t])]
    /\ scene_context' = [scene_context EXCEPT ![t] = EmptyDict]
    /\ pc' = [pc EXCEPT ![t] = "classify"]
    /\ UNCHANGED << shared, assistant, addon, user_input, intent_type, confidence, parameters,
                    suggestions >>

\* intent_type, confidence = self.intent_classifier.classify(normalized_input)
Classify(t) ==
    /\ pc[t] = "classify"
    /\ LET r == classify(normalized_input[t], keywords)
       IN  /\ intent_type' = [intent_type EXCEPT ![t] = r[1]]
           /\ confidence' = [confidence EXCEPT ![t] = r[2]]
    /\ keywords' = KeywordsAfterClassify(keywords)
    /\ pc' = [pc EXCEPT ![t] = "extract"]
    /\ UNCHANGED << patterns, workload, assistant, addon, user_input, normalized_input,
                    scene_context, parameters, suggestions >>

\* parameters = self._extract_parameters(normalized_input, intent_type)
Extract(t) ==
    /\ pc[t] = "extract"
    /\ LET r == _extract_parameters(normalized_input[t], intent_type[t])
       IN  /\ parameters' = [parameters EXCEPT ![t] = r.value]
           /\ pc' = [pc EXCEPT ![t] = IF r.raised THEN "raise" ELSE "suggest"]
    /\ UNCHANGED << shared, assistant, addon, user_input, normalized_input, scene_context,
                    intent_type, confidence, suggestions >>

\* suggestions = self._generate_suggestions(intent_type, parameters, scene_context)
Suggest(t) ==
    /\ pc[t] = "suggest"
    /\ suggestions' =
           [suggestions EXCEPT ![t] =
               _generate_suggestions(intent_type[t], parameters[t], scene_context[t])]
    /\ pc' = [pc EXCEPT ![t] = "return"]
    /\ UNCHANGED << shared, assistant, addon, user_input, normalized_input, scene_context,
                    intent_type, confidence, parameters >>

\* the locals of a call that has ended
Unwind(t) ==
    /\ pc' = [pc EXCEPT ![t] = "idle"]
    /\ user_input' = [user_input EXCEPT ![t] = <<>>]
    /\ normalized_input' = [normalized_input EXCEPT ![t] = <<>>]
    /\ scene_context' = [scene_context EXCEPT ![t] = EmptyDict]
    /\ intent_type' = [intent_type EXCEPT ![t] = "None"]
    /\ confidence' = [confidence EXCEPT ![t] = 0]
    /\ parameters' = [parameters EXCEPT ![t] = EmptyDict]
    /\ suggestions' = [suggestions EXCEPT ![t] = <<>>]
    /\ UNCHANGED << shared, assistant, addon >>

\* return Intent(...)
Return(t) ==
    /\ pc[t] = "return"
    /\ Unwind(t)

\* the ValueError of _parse_properties leaves parse: nothing catches it
Raise(t) ==
    /\ pc[t] = "raise"
    /\ Unwind(t)

\* the locals of the calls of parse
frames == << user_input, normalized_input, scene_context, intent_type,
             confidence, parameters, suggestions >>

\* send_message after the request, given what _parse_response returned
ParsedOutcome(parsed) ==
    [ raised               |-> FALSE,
      conversation_history |-> parsed.conversation_history,
      response             |-> parsed.response ]

\* send_message after the request, given what _fallback_response did
FallbackOutcome(fallback, history) ==
    [ raised               |-> fallback.raised,
      conversation_history |-> history,
      response             |-> fallback.value ]

\* the body of "try:" and "except Exception" in send_message for the outcome
\* r of the request: status 200 and a JSON body go to _parse_response, every
\* other outcome to _fallback_response
Outcome(r, msg, ctx, md, history, current) ==
    IF r.kind = "answer" /\ r.status = 200 /\ r.json = "ok"
    THEN ParsedOutcome(_parse_response(r.data, md, history, current))
    ELSE FallbackOutcome(_fallback_response(msg, ctx, md, current), history)

\* send_message(message, context, mode) is called: initialize_session and
\* _prepare_payload, whose AttributeError nothing catches; then the request
\* is sent
SendMessage ==
    /\ pc[Main] = "idle"
    /\ \E m \in Messages, c \in Contexts, md \in Modes :
           LET p == _prepare_payload(m, SceneContexts[c], md,
                                     conversation_history, current_mode)
           IN  /\ message' = m
               /\ context' = SceneContexts[c]
               /\ mode' = md
               /\ payload' = p.value
               /\ pc' = [pc EXCEPT ![Main] = IF p.raised THEN "send_raise" ELSE "post"]
    /\ session' = "ClientSession"
    /\ UNCHANGED << shared, frames, addon, api_key, current_mode, conversation_history,
                    max_conversation_history, reply, response >>

\* the request ends: the API answers or the request raises, and send_message
\* builds its AthenaMistResponse
ApiAnswers ==
    /\ pc[Main] = "post"
    /\ \E r \in Answers :
           LET o == Outcome(Replies[r], message, context, mode,
                            conversation_history, current_mode)
           IN  /\ reply' = Replies[r]
               /\ conversation_history' = o.conversation_history
               /\ response' = o.response
               /\ pc' = [pc EXCEPT ![Main] = IF o.raised THEN "send_raise"
                                             ELSE "send_return"]
    /\ UNCHANGED << shared, frames, addon, api_key, session, current_mode,
                    max_conversation_history, message, context, mode, payload >>

\* the arguments and locals of a call of send_message that has ended
Forget ==
    /\ pc' = [pc EXCEPT ![Main] = "idle"]
    /\ message' = <<>>
    /\ context' = NoneDict
    /\ mode' = "None"
    /\ payload' = EmptyDict
    /\ reply' = EmptyDict
    /\ response' = EmptyDict
    /\ UNCHANGED << shared, frames, addon, api_key, session, current_mode,
                    conversation_history, max_conversation_history >>

\* return of send_message
SendMessageReturn ==
    /\ pc[Main] = "send_return"
    /\ Forget

\* an exception leaves send_message
SendMessageRaise ==
    /\ pc[Main] = "send_raise"
    /\ Forget

\* ConfigManager.get_instance() for the first time in a process of Blender:
\* ConfigManager.__init__ loads the configuration
GetInstance ==
    /\ _instance = "None"
    /\ ParserFresh
    /\ tasks = <<>>
    /\ _instance' = "ConfigManager"
    /\ config' = _load_config(config_file)
    /\ UNCHANGED << shared, frames, pc, assistant, keyring, keyring_backend,
                    config_file, call, panel >>

\* what the other actions of the ConfigManager leave alone
ManagerFrame ==
    /\ _instance # "None"
    /\ tasks = <<>>
    /\ UNCHANGED << shared, frames, pc, assistant, _instance, keyring_backend, panel >>

\* set_api_key(service, key, save_to_keyring): keyring.set_password raises
\* before anything is stored; the TypeError of an api_key put in a section
\* that is not a dict comes after the keyring has the key
SetApiKey ==
    /\ ManagerFrame
    /\ \E service \in Services, key \in ApiKeys, save_to_keyring \in BOOLEAN :
           LET put == SetItem(WithSection(config, service), service, "api_key", key)
               raised == save_to_keyring /\ keyring_backend = "failing"
           IN  /\ keyring' = IF save_to_keyring /\ ~raised
                             THEN Put(keyring, service, key) ELSE keyring
               /\ config' = IF raised THEN config ELSE put.config
               /\ call' = [ op |-> "set_api_key", service |-> service, key |-> key,
                            save_to_keyring |-> save_to_keyring,
                            returned |-> ~raised /\ ~put.raised, value |-> "" ]
    /\ UNCHANGED config_file

\* get_api_key(service)
GetApiKey ==
    /\ ManagerFrame
    /\ \E service \in Services :
           call' = [ op |-> "get_api_key", service |-> service, key |-> "",
                     save_to_keyring |-> FALSE, returned |-> TRUE,
                     value |-> get_api_key(service, keyring_backend, keyring, config) ]
    /\ UNCHANGED << config, keyring, config_file >>

\* delete_api_key(service): keyring.delete_password raises PasswordDeleteError
\* when the keyring has no entry, and the configuration keeps its api_key
DeleteApiKey ==
    /\ ManagerFrame
    /\ \E service \in Services :
           LET raised == keyring_backend = "failing" \/ service \notin DOMAIN keyring
           IN  /\ keyring' = IF raised THEN keyring ELSE Del(keyring, service)
               /\ config' = IF raised THEN config ELSE WithoutApiKey(config, service)
               /\ call' = [ op |-> "delete_api_key", service |-> service, key |-> "",
                            save_to_keyring |-> FALSE, returned |-> ~raised,
                            value |-> "" ]
    /\ UNCHANGED config_file

\* set_setting(section, key, value); its TypeError leaves set_setting
SetSetting ==
    /\ ManagerFrame
    /\ \E setting \in Settings :
           LET put == SetItem(WithSection(config, setting[1]), setting[1],
                              setting[2], setting[3])
           IN  /\ config' = put.config
               /\ call' = [ op |-> "set_setting", service |-> setting[1],
                            key |-> setting[2], save_to_keyring |-> FALSE,
                            returned |-> FALSE,
                            value |-> IF put.raised THEN "TypeError" ELSE "" ]
    /\ UNCHANGED << keyring, config_file >>

\* save_config(): json.dump(self.config) into the file; False, and the file as
\* it was, when the directory or the file cannot be written
SaveConfig ==
    /\ ManagerFrame
    /\ \E written \in BOOLEAN :
           /\ config_file' = IF written THEN [kind |-> "object", data |-> config]
                             ELSE config_file
           /\ call' = [ op |-> "save_config", service |-> "", key |-> "",
                        save_to_keyring |-> FALSE, returned |-> written,
                        value |-> "" ]
    /\ UNCHANGED << config, keyring >>

\* Blender exits: the process, its ConfigManager and its tasks are gone, the
\* keyring and the file stay
Exit ==
    /\ _instance # "None" \/ tasks # <<>>
    /\ _instance' = "None"
    /\ config' = NoneDict
    /\ call' = NoCall
    /\ tasks' = <<>>
    /\ gemini_task' = 0
    /\ gemini_processing' = FALSE
    /\ gemini_response' = <<>>
    /\ gemini_suggestions' = <<>>
    /\ UNCHANGED << shared, frames, pc, assistant, keyring, keyring_backend,
                    config_file >>

\* what the actions of the tasks leave alone
TaskFrame ==
    UNCHANGED << shared, frames, pc, assistant, keyring, keyring_backend,
                 config_file, call >>

\* GEMINI_OT_SubmitQuery.execute: CANCELLED without a query or a key, else the
\* response is cleared and the task of _process_query_async created
SubmitQuery ==
    /\ ParserFresh
    /\ _instance = "None" \/ tasks # <<>>
    /\ \A i \in DOMAIN tasks : tasks[i].caller = "operator"
    /\ Len(tasks) < GeminiInputs.tasks
    /\ \E query \in GeminiInputs.queries :
           IF Strip(query) = <<>> THEN UNCHANGED << _instance, config, panel >>
           ELSE /\ _instance' = "ConfigManager"
                /\ config' = Loaded
                /\ IF get_api_key("gemini", keyring_backend, keyring, Loaded) = ""
                   THEN UNCHANGED panel
                   ELSE /\ gemini_response' = <<>>
                        /\ gemini_suggestions' = <<>>
                        /\ tasks' = Append(tasks,
                               NewTask("operator",
                                       get_api_key("gemini", keyring_backend, keyring, Loaded),
                                       query))
                        /\ gemini_task' = Len(tasks) + 1
                        /\ gemini_processing' = TRUE
    /\ TaskFrame

\* asyncio.run(test_conversation()): the task of a direct caller of one
\* GeminiIntegration
Script ==
    /\ ParserFresh
    /\ _instance = "None"
    /\ tasks = <<>>
    /\ \E key \in GeminiInputs.keys : tasks' = << NewTask("script", key, <<>>) >>
    /\ UNCHANGED << _instance, config, gemini_task, gemini_processing,
                    gemini_response, gemini_suggestions >>
    /\ TaskFrame

\* process_query has returned in task i, which is now the record task:
\* _process_query_async stores the response in the scene
Deliver(i, task) ==
    /\ tasks' = [tasks EXCEPT ![i] = task]
    /\ IF task.caller = "operator"
       THEN /\ gemini_response' = task.response.content
            /\ gemini_suggestions' = IF task.response.suggestions # <<>>
                                     THEN Take(task.response.suggestions, 3)
                                     ELSE gemini_suggestions
       ELSE UNCHANGED << gemini_response, gemini_suggestions >>

\* the task once process_query has returned
After(task, result) ==
    [task EXCEPT !.gemini   = result.self,
                 !.response = result.response,
                 !.pc       = IF task.caller = "operator" THEN "close" ELSE "ready"]

\* task i calls process_query, requested being what becomes of the call up to
\* session.post
Begin(i, task, requested) ==
    IF requested.response = NoneDict
    THEN /\ tasks' = [tasks EXCEPT ![i] = [task EXCEPT !.gemini = requested.self,
                                                       !.pc = "post"]]
         /\ UNCHANGED << gemini_response, gemini_suggestions >>
    ELSE Deliver(i, After(task, requested))

\* the call of process_query in _process_query_async
OperatorCall(task, self) ==
    [task EXCEPT !.gemini = self, !.context = SceneContext, !.stream = TRUE,
                 !.calls = @ + 1]

\* the first step of a task: the GeminiIntegration is built and initialized;
\* _process_query_async ends when initialize() is False and calls
\* process_query else, test_conversation goes on whatever initialize() says
Start(i) ==
    /\ i \in DOMAIN tasks
    /\ tasks[i].pc = "created"
    /\ ~tasks[i].must_cancel
    /\ _instance' = "ConfigManager"
    /\ config' = Loaded
    /\ \E built \in GeminiInputs.built, scene \in GeminiInputs.scene :
           LET self == initialize(GeminiIntegration(tasks[i].api_key,
                                      get_api_key("gemini", keyring_backend, keyring, Loaded),
                                      MODELING_ASSISTANT), built)
           IN  IF tasks[i].caller = "script"
               THEN /\ tasks' = [tasks EXCEPT ![i].gemini = self, ![i].pc = "ready"]
                    /\ UNCHANGED << gemini_processing, gemini_response, gemini_suggestions >>
               ELSE IF ~self._initialized
                    THEN /\ tasks' = [tasks EXCEPT ![i].gemini = close(self), ![i].pc = "done"]
                         /\ gemini_processing' = FALSE
                         /\ UNCHANGED << gemini_response, gemini_suggestions >>
               ELSE /\ Begin(i, OperatorCall(tasks[i], self),
                             Requested(self, Loaded, built, scene, SceneContext))
                    /\ UNCHANGED gemini_processing
    /\ UNCHANGED gemini_task
    /\ TaskFrame

\* the call of process_query by the direct caller
ScriptCall(task, query, ctx, stream) ==
    [task EXCEPT !.query = query, !.context = ctx, !.stream = stream,
                 !.calls = @ + 1,
                 !.answer = NoAnswer, !.response = NoneDict]

\* test_conversation calls process_query
Query(i) ==
    /\ i \in DOMAIN tasks
    /\ tasks[i].caller = "script"
    /\ tasks[i].pc = "ready"
    /\ tasks[i].calls < GeminiInputs.calls
    /\ \E query \in GeminiInputs.texts, ctx \in GeminiInputs.contexts,
          stream \in GeminiInputs.streams, built \in GeminiInputs.built,
          scene \in GeminiInputs.scene :
           Begin(i, ScriptCall(tasks[i], query, ctx, stream),
                 Requested(tasks[i].gemini, config, built, scene, ctx))
    /\ UNCHANGED << _instance, config, gemini_task, gemini_processing >>
    /\ TaskFrame

\* the request of task i is answered and process_query returns
Reply(i) ==
    /\ i \in DOMAIN tasks
    /\ tasks[i].pc = "post"
    /\ ~tasks[i].must_cancel
    /\ \E answer \in AnswersTo(tasks[i]) :
           Deliver(i, After([tasks[i] EXCEPT !.answer = answer],
                            Answered(tasks[i].gemini, tasks[i].query, tasks[i].context,
                                     tasks[i].stream, answer)))
    /\ UNCHANGED << _instance, config, gemini_task, gemini_processing >>
    /\ TaskFrame

\* test_conversation calls close(), which awaits session.close() when there
\* is a session
Close(i) ==
    /\ i \in DOMAIN tasks
    /\ tasks[i].caller = "script"
    /\ tasks[i].pc = "ready"
    /\ tasks' = IF tasks[i].gemini.session = "None"
                THEN [tasks EXCEPT ![i].gemini = close(@), ![i].pc = "done"]
                ELSE [tasks EXCEPT ![i].pc = "close"]
    /\ UNCHANGED << _instance, config, gemini_task, gemini_processing,
                    gemini_response, gemini_suggestions >>
    /\ TaskFrame

\* session.close() is over: close() returns; the finally clause of
\* _process_query_async resets the flag, and the CancelledError that went
\* through it ends the task
Finish(i) ==
    /\ i \in DOMAIN tasks
    /\ tasks[i].pc = "close"
    /\ ~tasks[i].must_cancel
    /\ tasks' = [tasks EXCEPT ![i].gemini = close(@),
                              ![i].pc = IF tasks[i].raised = "None" THEN "done"
                                        ELSE "cancelled"]
    /\ gemini_processing' = IF tasks[i].caller = "operator" THEN FALSE
                            ELSE gemini_processing
    /\ UNCHANGED << _instance, config, gemini_task, gemini_response, gemini_suggestions >>
    /\ TaskFrame

\* the event loop throws CancelledError into the cancelled task i: a task that
\* has not run ends at once; in process_query no except clause catches it and
\* the finally clause of _process_query_async awaits close(); in close() it
\* leaves the finally clause before the flag is reset
Thrown(i) ==
    /\ i \in DOMAIN tasks
    /\ tasks[i].must_cancel
    /\ tasks[i].pc \in {"created", "post", "close"}
    /\ tasks' = [tasks EXCEPT ![i].must_cancel = FALSE,
                              ![i].raised = IF tasks[i].pc = "post" THEN "CancelledError"
                                            ELSE @,
                              ![i].pc = IF tasks[i].pc = "post" THEN "close"
                                        ELSE "cancelled"]
    /\ UNCHANGED << _instance, config, gemini_task, gemini_processing,
                    gemini_response, gemini_suggestions >>
    /\ TaskFrame

\* GEMINI_OT_CancelQuery.execute; gemini_task is 0 when the window manager has
\* no such attribute
CancelQuery ==
    /\ tasks' = IF gemini_task # 0 /\ ~Ended(tasks[gemini_task])
                THEN [tasks EXCEPT ![gemini_task].must_cancel = TRUE]
                ELSE tasks
    /\ gemini_task' = 0
    /\ gemini_processing' = FALSE
    /\ UNCHANGED << _instance, config, gemini_response, gemini_suggestions >>
    /\ TaskFrame

\* GEMINI_OT_SubmitQuery.modal once the task is done
Modal ==
    /\ gemini_task # 0
    /\ Ended(tasks[gemini_task])
    /\ gemini_task' = 0
    /\ UNCHANGED << _instance, config, tasks, gemini_processing,
                    gemini_response, gemini_suggestions >>
    /\ TaskFrame

Next ==
    \/ \E t \in Threads :
           \/ Call(t)
           \/ Normalize(t)
           \/ Classify(t)
           \/ Extract(t)
           \/ Suggest(t)
           \/ Return(t)
           \/ Raise(t)
    \/ SendMessage
    \/ ApiAnswers
    \/ SendMessageReturn
    \/ SendMessageRaise
    \/ GetInstance
    \/ SetApiKey
    \/ GetApiKey
    \/ DeleteApiKey
    \/ SetSetting
    \/ SaveConfig
    \/ Exit
    \/ SubmitQuery
    \/ Script
    \/ \E i \in 1..MaxTasks :
           \/ Start(i)
           \/ Query(i)
           \/ Reply(i)
           \/ Close(i)
           \/ Finish(i)
           \/ Thrown(i)
    \/ CancelQuery
    \/ Modal

Spec == Init /\ [][Next]_vars

SpecConcurrent == InitConcurrent /\ [][Next]_vars

\* one caller of send_message, every message, context, mode and reply
InitAssistant ==
    /\ Constructed
    /\ Integrated
    /\ Installed
    /\ max_conversation_history = PreferenceDefault
    /\ workload = "assistant"

SpecAssistant == InitAssistant /\ [][Next]_vars

\* a long conversation under the least max_conversation_history
InitHistory ==
    /\ Constructed
    /\ Integrated
    /\ Installed
    /\ max_conversation_history = PreferenceMin
    /\ workload = "history"

SpecHistory == InitHistory /\ [][Next]_vars

\* a caller that uses the ConfigManager in every way, a keyring that works or
\* fails, every configuration file
InitConfig ==
    /\ Constructed
    /\ Integrated
    /\ max_conversation_history = PreferenceDefault
    /\ _instance = "None"
    /\ config = NoneDict
    /\ keyring = EmptyDict
    /\ keyring_backend \in {"working", "failing"}
    /\ config_file \in {ConfigFiles[i] : i \in 1..Len(ConfigFiles)}
    /\ call = NoCall
    /\ Registered
    /\ workload = "config"

SpecConfig == InitConfig /\ [][Next]_vars

\* Gemini queries of the panel and of a direct caller; a key may be in the
\* keyring from an earlier run
InitGemini ==
    /\ Constructed
    /\ Integrated
    /\ max_conversation_history = PreferenceDefault
    /\ _instance = "None"
    /\ config = NoneDict
    /\ keyring \in {EmptyDict, [gemini |-> "k1"]}
    /\ keyring_backend = "working"
    /\ config_file \in {ConfigFiles[1], ConfigFiles[5]}
    /\ call = NoCall
    /\ Registered
    /\ workload = "gemini"

SpecGemini == InitGemini /\ [][Next]_vars

\* the Intent a call at its return statement returns
Intent(t) ==
    [ type        |-> intent_type[t],
      confidence  |-> confidence[t],
      parameters  |-> parameters[t],
      context     |-> scene_context[t],
      suggestions |-> suggestions[t] ]

(***************************************************************************)
(* Properties.                                                             *)
(***************************************************************************)
\* the keyword list of intent type c in the table classify reads
KeywordsOf(c) ==
    LET i == CHOOSE n \in 1..Len(_load_keywords) : _load_keywords[n][1] = c
    IN  _load_keywords[i][2]

\* the score classify computes for intent type c on the normalized text s
ScoreOf(s, c) == _calculate_score(s, KeywordsOf(c))

\* the calls in which classify has just returned
Classified == {t \in Threads : pc[t] = "extract"}

\* the calls in which _normalize_input has just returned
Normalized == {t \in Threads : pc[t] = "classify"}

\* the calls about to return their Intent
Returning == {t \in Threads : pc[t] = "return"}

\* where the whitespace-delimited tokens of s start
TokenStarts(s) ==
    {a \in 1..Len(s) : ~IsSpace(s[a]) /\ (a = 1 \/ IsSpace(s[a - 1]))}

\* the token of s that starts at a
TokenAt(s, a) ==
    LET b == CHOOSE e \in a..Len(s) :
                 /\ \A i \in a..e : ~IsSpace(s[i])
                 /\ (e = Len(s) \/ IsSpace(s[e + 1]))
    IN  SubSeq(s, a, b)

\* f[1] + ... + f[n]
RECURSIVE Sum(_, _)
Sum(f, n) == IF n = 0 THEN 0 ELSE f[n] + Sum(f, n - 1)

\* C1: parse never raises: no call of parse ends in an exception.
ParseNeverRaises == \A t \in Threads : pc[t] # "raise"

\* C2: classify returns a category whose score no other category exceeds,
\* among the categories with that score the one declared first in IntentType,
\* and the confidence is that category's score.
ClassifyPicksFirstMaximum ==
    \A t \in Classified :
        LET s == normalized_input[t]
        IN  /\ intent_type[t] \in IntentTypes
            /\ confidence[t] = ScoreOf(s, intent_type[t])
            /\ \A c \in IntentTypes :
                   /\ ScoreOf(s, c) <= confidence[t]
                   /\ ScoreOf(s, c) = confidence[t]
                          => EnumIndex(intent_type[t]) <= EnumIndex(c)

\* C2 witness: several categories tie for a positive maximum and the winner is
\* not the first category of the enumeration.
TieBrokenByEnumOrder ==
    \E t \in Classified :
        /\ confidence[t] > 0
        /\ intent_type[t] # IntentType[1]
        /\ \E c \in IntentTypes \ {intent_type[t]} :
               ScoreOf(normalized_input[t], c) = confidence[t]

\* C3: the confidence, and the score of every category, lies in [0, 1].
ScoresInUnitInterval ==
    \A t \in Classified :
        /\ confidence[t] >= 0 /\ confidence[t] <= Scale
        /\ \A c \in IntentTypes :
               /\ ScoreOf(normalized_input[t], c) >= 0
               /\ ScoreOf(normalized_input[t], c) <= Scale

\* the sum S of C4, in halves: per keyword, 2 if it occurs in s, plus 1 for
\* each token it occurs in or that occurs in it
KeywordSum(s, kws) ==
    Sum([k \in 1..Len(kws) |->
            (IF Contains(kws[k], s) THEN 2 ELSE 0)
            + Cardinality({a \in TokenStarts(s) :
                  \/ Contains(kws[k], TokenAt(s, a))
                  \/ Contains(TokenAt(s, a), kws[k])})],
        Len(kws))

\* C3 witness: a category whose sum exceeds its keyword count, so that the
\* clamp to 1.0 acts.
ScoreClamped ==
    \E t \in Classified :
        /\ confidence[t] = Scale
        /\ KeywordSum(normalized_input[t], KeywordsOf(intent_type[t]))
               > 2 * Len(KeywordsOf(intent_type[t]))

\* C4: the score of every category is min(S / n, 1.0), S the keyword sum and n
\* the number of keywords; the returned confidence is the winner's.
ScoreIsClampedKeywordSum ==
    \A t \in Classified :
        LET s == normalized_input[t]
        IN  /\ \A c \in IntentTypes :
                   LET n == Len(KeywordsOf(c))
                       S == KeywordSum(s, KeywordsOf(c))
                   IN  /\ S >= 2 * n => ScoreOf(s, c) = Scale
                       /\ S < 2 * n => ScoreOf(s, c) * 2 * n = S * Scale
            /\ confidence[t] * 2 * Len(KeywordsOf(intent_type[t]))
                   = Min(KeywordSum(s, KeywordsOf(intent_type[t])),
                         2 * Len(KeywordsOf(intent_type[t]))) * Scale

\* C4 witness: a keyword of the winner lies inside a longer token, a shorter
\* token lies inside a keyword of the winner, and the score is not clamped.
PartialWordMatches ==
    \E t \in Classified :
        LET s   == normalized_input[t]
            kws == KeywordsOf(intent_type[t])
        IN  /\ confidence[t] > 0 /\ confidence[t] < Scale
            /\ \E k \in 1..Len(kws), a \in TokenStarts(s) :
                   Contains(kws[k], TokenAt(s, a)) /\ kws[k] # TokenAt(s, a)
            /\ \E k \in 1..Len(kws), a \in TokenStarts(s) :
                   Contains(TokenAt(s, a), kws[k]) /\ kws[k] # TokenAt(s, a)

\* C5: when no category scores above 0 the call does not raise, and it returns
\* confidence 0.0 with CREATE_OBJECT, no parameters and no suggestions; a
\* returned confidence of 0.0 comes with no parameters and no suggestions.
ZeroConfidenceIsEmpty ==
    \A t \in Threads :
        /\ pc[t] \in {"extract", "suggest", "return", "raise"}
           /\ (\A c \in IntentTypes : ScoreOf(normalized_input[t], c) = 0)
               => /\ confidence[t] = 0
                  /\ intent_type[t] = "CREATE_OBJECT"
                  /\ pc[t] # "raise"
        /\ pc[t] = "return" /\ confidence[t] = 0
               => /\ Intent(t).type = "CREATE_OBJECT"
                  /\ DOMAIN Intent(t).parameters = {}
                  /\ Len(Intent(t).suggestions) = 0

\* C5 witness: a text that is not blank is returned with confidence 0.0.
ZeroConfidenceReturned ==
    \E t \in Returning :
        /\ confidence[t] = 0
        /\ Len(normalized_input[t]) > 0

\* C6: the keys of the returned parameters are those of the category.
ParameterKeysFollowCategory ==
    \A t \in Returning :
        LET keys == DOMAIN Intent(t).parameters
        IN  /\ intent_type[t] = "CREATE_OBJECT"
                => keys \subseteq {"object_type", "properties"}
            /\ intent_type[t] = "CREATE_MATERIAL"
                => keys \subseteq {"material_type", "realistic", "procedural"}
            /\ intent_type[t] = "ANIMATE_OBJECT" => keys = {"animation_type"}
            /\ intent_type[t] \notin {"CREATE_OBJECT", "CREATE_MATERIAL", "ANIMATE_OBJECT"}
                => keys = {}

\* C6 witness: a CREATE_MATERIAL text in which the pattern of CREATE_OBJECT
\* matches too is returned with the material key alone.
GatedByCategory ==
    \E t \in Returning :
        /\ intent_type[t] = "CREATE_MATERIAL"
        /\ CreateMatches(normalized_input[t]) # {}
        /\ DOMAIN parameters[t] = {"material_type"}

\* C7: when a keyword of category c is a whitespace-delimited word of the raw
\* text (in any letter case), the score of c on the normalized text is at
\* least 1 / (number of keywords of c).
WholeWordKeywordScores ==
    \A t \in Classified :
        \A c \in IntentTypes :
            LET kws == KeywordsOf(c)
                raw == Lower(user_input[t])
            IN  (\E k \in 1..Len(kws), a \in TokenStarts(raw) : TokenAt(raw, a) = kws[k])
                    => ScoreOf(normalized_input[t], c) * Len(kws) >= Scale

\* C7 witness: the raw text holds the keyword "light" as a word and the
\* normalized text does not: the abbreviation table rewrote it.
KeywordRewritten ==
    \E t \in Classified :
        /\ \E a \in TokenStarts(user_input[t]) : TokenAt(user_input[t], a) = <<"l","i","g","h","t">>
        /\ \A a \in TokenStarts(normalized_input[t]) :
               TokenAt(normalized_input[t], a) # <<"l","i","g","h","t">>

\* str.upper()
Upper(s) ==
    [i \in 1..Len(s) |->
        IF s[i] \in LowerChars THEN CHOOSE u \in UpperChars : LowerMap[u] = s[i]
        ELSE IF s[i] = LongS THEN "S"
        ELSE s[i]]

\* s with the letters a-z in upper case
UpperAscii(s) ==
    [i \in 1..Len(s) |->
        IF s[i] \in LowerChars THEN CHOOSE u \in UpperChars : LowerMap[u] = s[i]
        ELSE s[i]]

\* s with every whitespace run replaced by the whitespace run w
RECURSIVE Respace(_, _, _)
Respace(s, w, i) ==
    IF i > Len(s) THEN <<>>
    ELSE IF IsSpace(s[i]) THEN w \o Respace(s, w, SkipSpace(s, i))
    ELSE <<s[i]>> \o Respace(s, w, i + 1)

\* texts that differ from s only in the length or kind of their whitespace runs
SpaceVariants(s) ==
    { s, Respace(s, <<"\t">>, 1), Respace(s, <<"\n", " ", " ">>, 1) }

\* texts that differ from s only in letter case and in whitespace runs
Variants(s) ==
    SpaceVariants(s) \cup {Upper(v) : v \in SpaceVariants(s)}
                     \cup {Lower(v) : v \in SpaceVariants(s)}

\* texts that differ from s only in the case of the letters a-z and A-Z and in
\* whitespace runs
AsciiVariants(s) ==
    SpaceVariants(s) \cup {UpperAscii(v) : v \in SpaceVariants(s)}
                     \cup {Lower(v) : v \in SpaceVariants(s)}

\* s has no leading or trailing whitespace and no whitespace but single
\* spaces between tokens
SingleSpaced(s) ==
    \A i \in 1..Len(s) :
        IsSpace(s[i]) => /\ s[i] = " "
                         /\ i > 1 /\ i < Len(s)
                         /\ ~IsSpace(s[i + 1])

\* C8 as stated: the normalized text has no uppercase character, no leading
\* or trailing whitespace and no whitespace but single spaces between tokens,
\* and a text that differs only in letter case and whitespace runs normalizes
\* to it too.
NormalizedHasNoUppercase ==
    \A t \in Normalized :
        LET s == normalized_input[t]
        IN  /\ \A i \in 1..Len(s) : ~IsUpper(s[i])
            /\ SingleSpaced(s)
            /\ \A v \in Variants(user_input[t]) : _normalize_input(v) = s

\* C8 amended: the normalized text has no character that str.lower() changes
\* (none of A-Z), no leading or trailing whitespace and no whitespace but
\* single spaces between tokens, and a text that differs only in the case of
\* the letters a-z / A-Z and in whitespace runs normalizes to it too.
NormalizedIsCanonical ==
    \A t \in Normalized :
        LET s == normalized_input[t]
        IN  /\ Lower(s) = s
            /\ \A i \in 1..Len(s) : s[i] \notin UpperChars
            /\ SingleSpaced(s)
            /\ \A v \in AsciiVariants(user_input[t]) : _normalize_input(v) = s

\* C8 witness: a raw text with an uppercase letter, a tab and a doubled space.
MixedCaseAndSpace ==
    \E t \in Normalized :
        LET u == user_input[t]
        IN  /\ \E i \in 1..Len(u) : u[i] \in UpperChars
            /\ \E i \in 1..Len(u) : u[i] = "\t"
            /\ \E i \in 1..(Len(u) - 1) : IsSpace(u[i]) /\ IsSpace(u[i + 1])
            /\ Len(normalized_input[t]) > 0

\* the text before the abbreviation loop of _normalize_input
Collapsed(s) == Strip(CollapseFrom(Lower(s), 1))

\* the tokens of s, in order
Tokens(s) == Split(s)

\* abbreviation k occurs in token w as a whole word: between two \b
Standalone(k, w) ==
    \E i \in 1..Len(w) :
        /\ MatchAt(abbreviations[k][1], w, i)
        /\ WordBoundary(w, i)
        /\ WordBoundary(w, i + Len(abbreviations[k][1]))

\* C9: a token that is an abbreviation is replaced by its full form, and a
\* token in which no abbreviation stands as a whole word is left unchanged.
WholeWordAbbreviationsOnly ==
    \A t \in Normalized :
        LET before == Tokens(Collapsed(user_input[t]))
            after  == Tokens(normalized_input[t])
        IN  /\ Len(after) = Len(before)
            /\ \A j \in 1..Len(before) :
                   /\ \A k \in 1..Len(abbreviations) :
                          before[j] = abbreviations[k][1] => after[j] = abbreviations[k][2]
                   /\ (\A k \in 1..Len(abbreviations) : ~Standalone(k, before[j]))
                          => after[j] = before[j]

\* C9 witness: one token is an abbreviation and another token holds an
\* abbreviation inside a longer word.
AbbreviationAndLongerWord ==
    \E t \in Normalized :
        LET before == Tokens(Collapsed(user_input[t]))
        IN  /\ \E j \in 1..Len(before), k \in 1..Len(abbreviations) :
                   before[j] = abbreviations[k][1]
            /\ \E j \in 1..Len(before), k \in 1..Len(abbreviations) :
                   /\ Contains(abbreviations[k][1], before[j])
                   /\ \A i \in 1..Len(before[j]) : IsWordChar(before[j][i])
                   /\ \A m \in 1..Len(abbreviations) : before[j] # abbreviations[m][1]

\* parse(text) on a parser whose keyword table is table: the Intent, or
\* [raised |-> TRUE]
parse(text, table) ==
    LET n == _normalize_input(text)
        c == classify(n, table)
        p == _extract_parameters(n, c[1])
    IN  IF p.raised THEN [raised |-> TRUE]
        ELSE [ raised |-> FALSE,
               intent |-> [ type        |-> c[1],
                            confidence  |-> c[2],
                            parameters  |-> p.value,
                            context     |-> EmptyDict,
                            suggestions |-> _generate_suggestions(c[1], p.value, EmptyDict) ] ]

\* C10: whatever calls ran before or run at the same time, a call returns what
\* a freshly constructed parser returns for its text (or raises where that one
\* raises), and the keyword and pattern tables stay as constructed.
ParseIsPure ==
    /\ keywords = _load_keywords
    /\ patterns = _load_patterns
    /\ \A t \in Threads :
           /\ pc[t] = "return" =>
                  /\ ~parse(user_input[t], _load_keywords).raised
                  /\ Intent(t) = parse(user_input[t], _load_keywords).intent
           /\ pc[t] = "raise" => parse(user_input[t], _load_keywords).raised

\* C10 witness: a call returns while another thread is inside a call on a
\* different text.
ReturnDuringOtherCall ==
    \E t \in Returning, u \in Threads :
        /\ u # t
        /\ pc[u] \in {"classify", "extract", "suggest"}
        /\ user_input[u] # user_input[t]
        /\ confidence[t] > 0

\* the calls about to return the Intent of text
ReturningFor(text) == {t \in Returning : user_input[t] = text}

\* C11: parse('Create a cube') returns CREATE_OBJECT with object_type 'cube';
\* on the normalized text the CREATE_OBJECT score exceeds every other score or
\* equals it with CREATE_OBJECT declared first.
CreateACube ==
    /\ \A t \in Threads :
           user_input[t] = <<"C","r","e","a","t","e"," ","a"," ","c","u","b","e">> => pc[t] # "raise"
    /\ \A t \in ReturningFor(<<"C","r","e","a","t","e"," ","a"," ","c","u","b","e">>) :
           /\ Intent(t).type = "CREATE_OBJECT"
           /\ "object_type" \in DOMAIN Intent(t).parameters
           /\ Intent(t).parameters["object_type"] = <<"c","u","b","e">>
           /\ \A c \in IntentTypes \ {"CREATE_OBJECT"} :
                  \/ ScoreOf(normalized_input[t], c) < ScoreOf(normalized_input[t], "CREATE_OBJECT")
                  \/ /\ ScoreOf(normalized_input[t], c) = ScoreOf(normalized_input[t], "CREATE_OBJECT")
                     /\ EnumIndex("CREATE_OBJECT") < EnumIndex(c)

\* C11 witness: the call on 'Create a cube' is about to return, and the other
\* categories are the nine the claim counts.
CreateACubeReturned ==
    /\ ReturningFor(<<"C","r","e","a","t","e"," ","a"," ","c","u","b","e">>) # {}
    /\ Cardinality(IntentTypes \ {"CREATE_OBJECT"}) = 9

\* C12: parse('create a material that looks like metal') returns
\* CREATE_MATERIAL, not CREATE_OBJECT, with material_type 'metal', although
\* the text holds the CREATE_OBJECT keyword 'create'.
MaterialLikeMetal ==
    /\ \A t \in Threads :
           user_input[t] = <<"c","r","e","a","t","e"," ","a"," ","m","a","t","e","r","i","a","l"," ","t","h","a","t"," ","l","o","o","k","s"," ","l","i","k","e"," ","m","e","t","a","l">>
               => pc[t] # "raise"
    /\ \A t \in ReturningFor(<<"c","r","e","a","t","e"," ","a"," ","m","a","t","e","r","i","a","l"," ","t","h","a","t"," ","l","o","o","k","s"," ","l","i","k","e"," ","m","e","t","a","l">>) :
           /\ Intent(t).type = "CREATE_MATERIAL"
           /\ "material_type" \in DOMAIN Intent(t).parameters
           /\ Intent(t).parameters["material_type"] = <<"m","e","t","a","l">>

\* C12 witness: that call is about to return and its text holds 'create',
\* which scores for CREATE_OBJECT.
MaterialLikeMetalReturned ==
    \E t \in ReturningFor(<<"c","r","e","a","t","e"," ","a"," ","m","a","t","e","r","i","a","l"," ","t","h","a","t"," ","l","o","o","k","s"," ","l","i","k","e"," ","m","e","t","a","l">>) :
        /\ Contains(<<"c","r","e","a","t","e">>, normalized_input[t])
        /\ ScoreOf(normalized_input[t], "CREATE_OBJECT") > 0

\* C13: parse('animate the character with a bounce') returns ANIMATE_OBJECT
\* with animation_type 'bounce'.
AnimateWithBounce ==
    /\ \A t \in Threads :
           user_input[t] = <<"a","n","i","m","a","t","e"," ","t","h","e"," ","c","h","a","r","a","c","t","e","r"," ","w","i","t","h"," ","a"," ","b","o","u","n","c","e">>
               => pc[t] # "raise"
    /\ \A t \in ReturningFor(<<"a","n","i","m","a","t","e"," ","t","h","e"," ","c","h","a","r","a","c","t","e","r"," ","w","i","t","h"," ","a"," ","b","o","u","n","c","e">>) :
           /\ Intent(t).type = "ANIMATE_OBJECT"
           /\ "animation_type" \in DOMAIN Intent(t).parameters
           /\ Intent(t).parameters["animation_type"] = <<"b","o","u","n","c","e">>

\* C13 witness: that call is about to return.
AnimateWithBounceReturned ==
    \E t \in ReturningFor(<<"a","n","i","m","a","t","e"," ","t","h","e"," ","c","h","a","r","a","c","t","e","r"," ","w","i","t","h"," ","a"," ","b","o","u","n","c","e">>) :
        Len(normalized_input[t]) = Len(user_input[t])

\* the float that is the integer n
FloatOf(n) == Decimal(n, 0)

\* C14: parse('create a cube with size 5 at (1, 2, 3) color red') returns
\* CREATE_OBJECT with object_type 'cube', size 5.0, position [1.0, 2.0, 3.0]
\* and color 'red'.
CubeWithProperties ==
    /\ \A t \in Threads :
           user_input[t] = <<"c","r","e","a","t","e"," ","a"," ","c","u","b","e"," ","w","i","t","h"," ","s","i","z","e"," ","5"," ","a","t"," ","(","1",","," ","2",","," ","3",")"," ","c","o","l","o","r"," ","r","e","d">>
               => pc[t] # "raise"
    /\ \A t \in ReturningFor(<<"c","r","e","a","t","e"," ","a"," ","c","u","b","e"," ","w","i","t","h"," ","s","i","z","e"," ","5"," ","a","t"," ","(","1",","," ","2",","," ","3",")"," ","c","o","l","o","r"," ","r","e","d">>) :
           /\ Intent(t).type = "CREATE_OBJECT"
           /\ DOMAIN Intent(t).parameters = {"object_type", "properties"}
           /\ Intent(t).parameters["object_type"] = <<"c","u","b","e">>
           /\ Intent(t).parameters["properties"] =
                  [k \in {"size", "position", "color"} |->
                      IF k = "size" THEN FloatOf(5)
                      ELSE IF k = "position" THEN <<FloatOf(1), FloatOf(2), FloatOf(3)>>
                      ELSE <<"r","e","d">>]

\* C14 witness: that call is about to return with a properties dict.
CubeWithPropertiesReturned ==
    \E t \in ReturningFor(<<"c","r","e","a","t","e"," ","a"," ","c","u","b","e"," ","w","i","t","h"," ","s","i","z","e"," ","5"," ","a","t"," ","(","1",","," ","2",","," ","3",")"," ","c","o","l","o","r"," ","r","e","d">>) :
        "properties" \in DOMAIN parameters[t]

\* the calls about to return an Intent of category c
ReturningAs(c) == {t \in Returning : intent_type[t] = c}

\* the words of C15 that occur in the text s
EffectsIn(s) ==
    {w \in {<<"b","o","u","n","c","e">>, <<"r","o","t","a","t","e">>, <<"s","c","a","l","e">>} : Contains(w, s)}

\* C15: an ANIMATE_OBJECT call does not raise and returns exactly the key
\* animation_type, whose value is 'bounce' if the normalized text contains
\* 'bounce', else 'rotation' if it contains 'rotate', else 'scale' if it
\* contains 'scale', else 'custom'.
AnimationTypeByPriority ==
    /\ \A t \in Threads : pc[t] = "raise" => intent_type[t] # "ANIMATE_OBJECT"
    /\ \A t \in ReturningAs("ANIMATE_OBJECT") :
           LET s == normalized_input[t]
               a == Intent(t).parameters
           IN  /\ DOMAIN a = {"animation_type"}
               /\ <<"b","o","u","n","c","e">> \in EffectsIn(s)
                      => a["animation_type"] = <<"b","o","u","n","c","e">>
               /\ <<"b","o","u","n","c","e">> \notin EffectsIn(s) /\ <<"r","o","t","a","t","e">> \in EffectsIn(s)
                      => a["animation_type"] = <<"r","o","t","a","t","i","o","n">>
               /\ EffectsIn(s) = {<<"s","c","a","l","e">>}
                      => a["animation_type"] = <<"s","c","a","l","e">>
               /\ EffectsIn(s) = {}
                      => a["animation_type"] = <<"c","u","s","t","o","m">>

\* C15 witness: an ANIMATE_OBJECT text holds 'rotate' before 'bounce' and the
\* call returns 'bounce'.
SeveralEffectsOneReturned ==
    \E t \in ReturningAs("ANIMATE_OBJECT") :
        /\ Cardinality(EffectsIn(normalized_input[t])) >= 2
        /\ \E i, j \in 1..Len(normalized_input[t]) :
               /\ i < j
               /\ MatchAt(<<"r","o","t","a","t","e">>, normalized_input[t], i)
               /\ MatchAt(<<"b","o","u","n","c","e">>, normalized_input[t], j)
        /\ parameters[t]["animation_type"] = <<"b","o","u","n","c","e">>

\* a str, list or dict that is not empty (a float is a pair, never empty)
NonEmpty(v) == DOMAIN v # {}

\* C16 as stated: every key of the parameters of a CREATE_OBJECT Intent, and
\* every key of its properties, carries a non-empty value.
NoEmptyValue ==
    \A t \in ReturningAs("CREATE_OBJECT") :
        /\ \A k \in DOMAIN Intent(t).parameters : NonEmpty(Intent(t).parameters[k])
        /\ "properties" \in DOMAIN Intent(t).parameters
               => \A k \in DOMAIN Intent(t).parameters["properties"] :
                      NonEmpty(Intent(t).parameters["properties"][k])

\* C16 amended: in a CREATE_OBJECT Intent the keys are object_type and
\* properties at most; object_type is a non-empty word; properties is there
\* only with object_type and only when the text holds 'with', and it may be
\* the empty dict; its keys are size, position and color at most, each there
\* only when the text holds its word ('size', 'at (', 'color'), each with a
\* non-empty value; a text without 'create' gives no key at all.
NoEmptyValueButProperties ==
    \A t \in ReturningAs("CREATE_OBJECT") :
        LET s == normalized_input[t]
            a == Intent(t).parameters
        IN  /\ DOMAIN a \subseteq {"object_type", "properties"}
            /\ ~Contains(<<"c","r","e","a","t","e">>, s) => DOMAIN a = {}
            /\ "object_type" \in DOMAIN a =>
                   /\ NonEmpty(a["object_type"])
                   /\ \A i \in 1..Len(a["object_type"]) : IsWordChar(a["object_type"][i])
            /\ "properties" \in DOMAIN a =>
                   /\ "object_type" \in DOMAIN a
                   /\ Contains(<<"w","i","t","h">>, s)
                   /\ DOMAIN a["properties"] \subseteq {"size", "position", "color"}
                   /\ \A k \in DOMAIN a["properties"] : NonEmpty(a["properties"][k])
                   /\ "size" \in DOMAIN a["properties"] => Contains(<<"s","i","z","e">>, s)
                   /\ "position" \in DOMAIN a["properties"] =>
                          /\ Contains(<<"a","t">>, s) /\ Contains(<<"(">>, s)
                          /\ \A n \in 1..Len(a["properties"]["position"]) :
                                 NonEmpty(a["properties"]["position"][n])
                   /\ "color" \in DOMAIN a["properties"] => Contains(<<"c","o","l","o","r">>, s)

\* C16 witness: a 'with' clause that holds none of size, at and color: the
\* Intent carries the key properties with the empty dict.
EmptyPropertiesReturned ==
    \E t \in ReturningAs("CREATE_OBJECT") :
        /\ "properties" \in DOMAIN parameters[t]
        /\ DOMAIN parameters[t]["properties"] = {}
        /\ ~Contains(<<"s","i","z","e">>, normalized_input[t])
        /\ ~Contains(<<"c","o","l","o","r">>, normalized_input[t])

\* C17: the suggestions of a returned Intent number 0 or 3, and they number 3
\* exactly when the category is CREATE_OBJECT with object_type 'tree' or
\* 'cube', or CREATE_MATERIAL with material_type 'metal' or 'wood'.
SuggestionsByTable ==
    \A t \in Returning :
        LET a == Intent(t).parameters
            advised ==
                \/ /\ Intent(t).type = "CREATE_OBJECT"
                   /\ "object_type" \in DOMAIN a
                   /\ a["object_type"] \in {<<"t","r","e","e">>, <<"c","u","b","e">>}
                \/ /\ Intent(t).type = "CREATE_MATERIAL"
                   /\ "material_type" \in DOMAIN a
                   /\ a["material_type"] \in {<<"m","e","t","a","l">>, <<"w","o","o","d">>}
        IN  /\ Len(Intent(t).suggestions) \in {0, 3}
            /\ Len(Intent(t).suggestions) = 3 <=> advised

\* C17 witness: a CREATE_OBJECT Intent whose object_type is neither 'tree' nor
\* 'cube' is returned without suggestions.
OtherObjectNoSuggestions ==
    \E t \in ReturningAs("CREATE_OBJECT") :
        /\ "object_type" \in DOMAIN parameters[t]
        /\ parameters[t]["object_type"] \notin {<<"t","r","e","e">>, <<"c","u","b","e">>}
        /\ Len(suggestions[t]) = 0

\* C18: a CREATE_MATERIAL call does not raise; its Intent has the key
\* realistic, with True, exactly when the normalized text contains
\* 'realistic', and the key procedural, with True, exactly when it contains
\* 'procedural'; it has no key besides these and material_type.
MaterialFlagsIndependent ==
    /\ \A t \in Threads : pc[t] = "raise" => intent_type[t] # "CREATE_MATERIAL"
    /\ \A t \in ReturningAs("CREATE_MATERIAL") :
           LET s == normalized_input[t]
               a == Intent(t).parameters
           IN  /\ DOMAIN a \subseteq {"material_type", "realistic", "procedural"}
               /\ "realistic" \in DOMAIN a <=> Contains(<<"r","e","a","l","i","s","t","i","c">>, s)
               /\ "procedural" \in DOMAIN a <=> Contains(<<"p","r","o","c","e","d","u","r","a","l">>, s)
               /\ "realistic" \in DOMAIN a => a["realistic"] = TRUE
               /\ "procedural" \in DOMAIN a => a["procedural"] = TRUE

\* C18 witness: both flags are returned together with a material_type.
BothFlagsAndMaterialType ==
    \E t \in ReturningAs("CREATE_MATERIAL") :
        DOMAIN parameters[t] = {"material_type", "realistic", "procedural"}

\* C19: send_message returns an AthenaMistResponse for every call and no
\* exception leaves it, whatever the message, the mode and the context, the
\* default context None included: the parsed reply, of confidence 0.9, when
\* the API answers HTTP 200, and the fallback response, of confidence 0.6,
\* without actions and with at most 3 suggestions, when the API answers another
\* status or the request raises.
SendMessageNeverRaises ==
    /\ pc[Main] # "send_raise"
    /\ pc[Main] = "send_return" =>
           IF reply.kind = "answer" /\ reply.status = 200
           THEN response.confidence = (9 * Scale) \div 10
           ELSE /\ response.confidence = (6 * Scale) \div 10
                /\ response.actions = <<>>
                /\ Len(response.suggestions) <= 3

\* C20: after any sequence of calls of send_message the number of messages
\* kept in conversation_history never exceeds the max_conversation_history
\* preference.
HistoryWithinPreference ==
    Len(conversation_history) <= max_conversation_history

\* C21: a key passed to set_api_key is kept in the keyring and in memory only:
\* after any sequence of set_api_key, set_setting and save_config the
\* configuration file never contains the key.
KeyNeverOnDisk ==
    \A section \in DOMAIN config_file.data :
        IsDict(config_file.data[section]) =>
            \A key \in DOMAIN config_file.data[section] :
                config_file.data[section][key] \notin {"k1", "k2"}

\* C22: once set_api_key(service, k, save_to_keyring) has returned True for a
\* non-empty k, get_api_key(service) returns k, for both values of
\* save_to_keyring and whatever was stored for the service before.
SetThenGet ==
    (call.op = "set_api_key" /\ call.returned /\ call.key # "") =>
        get_api_key(call.service, keyring_backend, keyring, config) = call.key

\* C23: once delete_api_key(service) has been called, get_api_key(service)
\* returns "", whether the key was stored with save_to_keyring True or False.
DeleteThenGet ==
    call.op = "delete_api_key" =>
        get_api_key(call.service, keyring_backend, keyring, config) = ""

\* C24: when _load_config has read the file, every section of DEFAULT_CONFIG
\* is in the configuration, with every key of that section, for every JSON
\* object in the file; the value is the file's where the file gives one and
\* the default otherwise.
LoadedHasDefaults ==
    (_instance # "None" /\ call = NoCall) =>
        \A section \in DOMAIN DEFAULT_CONFIG :
            /\ section \in DOMAIN config
            /\ IsDict(config[section])
            /\ \A key \in DOMAIN DEFAULT_CONFIG[section] :
                   /\ key \in DOMAIN config[section]
                   /\ config[section][key] =
                          IF /\ config_file.kind = "object"
                             /\ section \in DOMAIN config_file.data
                             /\ key \in DOMAIN config_file.data[section]
                          THEN config_file.data[section][key]
                          ELSE DEFAULT_CONFIG[section][key]

\* conversation_history of the GeminiIntegration of a task, empty before it is built
HistoryOf(task) ==
    IF task.gemini = NoneDict THEN <<>> ELSE task.gemini.conversation_history

\* last_response of the GeminiIntegration of a task, None before it is built
LastResponseOf(task) ==
    IF task.gemini = NoneDict THEN NoneDict ELSE task.gemini.last_response

\* the call of process_query of a task met one of the failures: no key or no
\* session, an exception before the request, a request that raised or timed
\* out, a status other than 200, a body that is no JSON, a line of the stream
\* on which the handler raises
Failing(task) ==
    \/ ~task.gemini._initialized
    \/ task.answer = NoAnswer
    \/ task.answer.kind \in {"raise", "timeout"}
    \/ /\ task.answer.kind = "answer"
       /\ \/ task.answer.status # 200
          \/ ~task.stream /\ task.answer.result = NoneDict
          \/ task.stream /\ StreamLoop(task.answer.lines, 1, <<>>).kind = "raise"

\* this step is the return of process_query in task i
ReturnStep(i) ==
    /\ i \in DOMAIN tasks
    /\ i \in DOMAIN tasks'
    /\ tasks'[i].response # NoneDict
    /\ tasks[i].pc = "post" \/ tasks'[i].calls > tasks[i].calls

\* a return of process_query after a failure gives confidence 0.0, no
\* suggestions and no actions and leaves conversation_history and
\* last_response as they were
FailureStep ==
    \A i \in 1..MaxTasks :
        ReturnStep(i) /\ Failing(tasks'[i]) =>
            /\ tasks'[i].response.confidence = 0
            /\ tasks'[i].response.suggestions = <<>>
            /\ tasks'[i].response.actions = <<>>
            /\ HistoryOf(tasks'[i]) = HistoryOf(tasks[i])
            /\ LastResponseOf(tasks'[i]) = LastResponseOf(tasks[i])

\* an exception leaves process_query in task i in this step: the task had been
\* cancelled, and conversation_history and last_response are as they were
RaiseStep ==
    \A i \in 1..MaxTasks :
        i \in DOMAIN tasks /\ i \in DOMAIN tasks' /\ tasks'[i].raised # tasks[i].raised =>
            /\ tasks[i].must_cancel
            /\ HistoryOf(tasks'[i]) = HistoryOf(tasks[i])
            /\ LastResponseOf(tasks'[i]) = LastResponseOf(tasks[i])

\* C25 as stated: process_query never raises, and when no API key is set, when
\* initialization fails, when the API answers a non-200 status, when the
\* request times out or when any other exception occurs, it returns a
\* GeminiResponse with confidence 0.0, empty suggestions and empty actions and
\* leaves conversation_history and last_response unchanged
ProcessQueryNeverRaises ==
    /\ [](\A i \in DOMAIN tasks : tasks[i].raised = "None")
    /\ [][FailureStep]_vars

\* C25: no exception leaves process_query but the asyncio.CancelledError
\* thrown into it when its task is cancelled, which leaves conversation_history
\* and last_response unchanged; when no API key is set, when initialization
\* fails, when the API answers a non-200 status, when the request times out or
\* when any other exception occurs, it returns a GeminiResponse with
\* confidence 0.0, empty suggestions and empty actions and leaves
\* conversation_history and last_response unchanged
ProcessQueryRaisesCancelledErrorOnly ==
    /\ [](\A i \in DOMAIN tasks : tasks[i].raised \in {"None", "CancelledError"})
    /\ [][RaiseStep]_vars
    /\ [][FailureStep]_vars

\* a direct caller got an error response for a non-200 status from a
\* GeminiIntegration that had a conversation_history
FailureAfterSuccess ==
    \E i \in DOMAIN tasks :
        /\ tasks[i].caller = "script"
        /\ tasks[i].pc = "ready"
        /\ tasks[i].answer.kind = "answer"
        /\ tasks[i].answer.status # 200
        /\ tasks[i].response # NoneDict
        /\ tasks[i].response.confidence = 0
        /\ tasks[i].gemini.conversation_history # <<>>

\* the task has been cancelled: cancel() was called on it
Cancelled(task) ==
    task.must_cancel \/ task.raised # "None" \/ task.pc = "cancelled"

\* the tasks of submitted queries that have neither completed nor been cancelled
InFlight ==
    { i \in DOMAIN tasks : tasks[i].caller = "operator" /\ ~Ended(tasks[i])
                           /\ ~Cancelled(tasks[i]) }

\* C26: window_manager.gemini_processing is True if some submitted query task
\* has neither completed nor been cancelled, and False otherwise
ProcessingWhileInFlight == gemini_processing = (InFlight # {})

\* the content of the response process_query gave a task, "" when it gave none
ContentFor(task) ==
    IF task.response = NoneDict THEN <<>> ELSE task.response.content

\* C27: once all tasks of submitted queries have completed, scene.gemini_response
\* holds the response to the most recently submitted query, or the cleared
\* field when that query got none
ResponseToLatestQuery ==
    ( /\ tasks # <<>>
      /\ \A i \in DOMAIN tasks : tasks[i].caller = "operator" /\ Ended(tasks[i]) )
    => gemini_response = ContentFor(tasks[Len(tasks)])

=============================================================================
